---------------------------- MODULE Spec2Model ----------------------------
(***************************************************************************)
(* Model of the building-model loader of MPCHomeControl.                   *)
(*                                                                         *)
(*   src/src/model.rs             Model::try_from(as_loaded::Model), the   *)
(*                                loader with reserved zones, default air  *)
(*                                and layer markers                        *)
(*   src/MPCHomeControl/src/model.rs                                       *)
(*                                the loader with Inner/Outer zones and    *)
(*                                the adjacent-zone shorthand              *)
(*                                                                         *)
(* Physical quantities of a document are integers: areas, volumes,         *)
(* thicknesses, specific heat capacities and U values in their SI unit,    *)
(* thermal conductivities and densities in thousandths of it, so that the  *)
(* default air (0.026, 1012.0, 1.199) is exact.                            *)
(*                                                                         *)
(* Option<T> is a sequence of length at most one: None == <<>>,            *)
(* Some(x) == <<x>>.  anyhow::Result<T> is a record with the field ok.     *)
(* An error is its format string together with the arguments the format    *)
(* interpolates, in order: the names the message contains are exactly the  *)
(* elements of args.                                                       *)
(***************************************************************************)
EXTENDS Integers, Sequences, FiniteSets, TLC

VARIABLES
    value,                     \* the as_loaded::Model handed to try_from
    pc,                        \* position inside try_from
    converted_materials,       \* HashMap<String, Rc<Material>>
    converted_boundary_types,  \* HashMap<String, Rc<BoundaryType>> being collected
    pending_types,             \* boundary types the into_iter() has not yielded yet
    converted_zones,           \* HashMap<String, Rc<Zone>>
    converted_boundaries,      \* Vec<Boundary>
    bi,                        \* index of the Boundary entry being processed
    si,                        \* index of the next sub-boundary of that entry
    remaining_area,            \* let mut remaining_area
    zone_pair,                 \* let zone_pair
    pending_zones,             \* zones a HashMap iterator has not yielded yet
    result,                    \* what try_from returned: None while it runs
    json,                      \* the document handed to from_json, None for a direct try_from
    graph,                     \* UnGraph<Node, Edge> of RcNetwork::from
    zone_indices,              \* HashMap<String, NodeIndex>
    marker_indices,            \* MultiMap<(String, String), NodeIndex>
    boundary_group_index,      \* let mut boundary_group_index
    network,                   \* what RcNetwork::from returned: None until it has
    built_before,              \* the RcNetwork of an earlier RcNetwork::from(&model)
    zone_mappings,             \* JSONConfig::zone_mappings handed to from_config
    pending_mappings,          \* (zone, measurement) pairs from_config has not yielded yet
    influx_zones,              \* InfluxDB::zones
    db,                        \* what the database answers to each query string
    influx_pc,                 \* position inside from_config and read_zone
    zone_arg,                  \* the argument zone of read_zone
    mi,                        \* index of the measurement that read_zone reads next
    read_result,               \* let mut result of read_zone
    queries_run,               \* the queries sent to the client so far
    returned                   \* what read_zone returned: None while it runs

vars == <<value, pc, converted_materials, converted_boundary_types, pending_types,
          converted_zones, converted_boundaries, bi, si, remaining_area, zone_pair,
          pending_zones, result, json, graph, zone_indices, marker_indices,
          boundary_group_index, network, built_before, zone_mappings, pending_mappings,
          influx_zones, db, influx_pc, zone_arg, mi, read_result, queries_run, returned>>

network_vars == <<json, graph, zone_indices, marker_indices, boundary_group_index, network,
                  built_before>>

influx_vars == <<zone_mappings, pending_mappings, influx_zones, db, influx_pc, zone_arg, mi,
                 read_result, queries_run, returned>>

-----------------------------------------------------------------------------
(* Bounds of the explored documents *)

MaxVolume == 2
MaxLayers == 3
MaxArea == 2
MaxSubs == 2
MaxBoundaries == 2
MaxAdjacent == 2

-----------------------------------------------------------------------------
(* Option and Result *)

None == <<>>
Some(x) == <<x>>

Ok(v) == [ok |-> TRUE, val |-> v]
Err(msg, args) == [ok |-> FALSE, msg |-> msg, args |-> args]

Range(s) == {s[i] : i \in DOMAIN s}

RECURSIVE SumSeq(_)
SumSeq(s) == IF s = <<>> THEN 0 ELSE s[1] + SumSeq(Tail(s))

-----------------------------------------------------------------------------
(* Error messages *)

MsgReserved == "'{}' is a reserved zone name and must not be defined in model"
MsgNotFound == "Could not find {} {:?}"
MsgConsecutive == "Boundary type {:?} has two consecutive markers"
MsgNoLayer == "Boundary type {:?} does not have at least non-marker layer"
MsgArea == "Boundary {:?} has less area than the sum of its sub-boundaries"

-----------------------------------------------------------------------------
(* Material *)

Material(name, k, c, rho) ==
    [name |-> name, thermal_conductivity |-> k,
     specific_heat_capacity |-> c, density |-> rho]

default_air == Material("air", 26, 1012, 1199)

material_convert(m, name) ==
    Material(name, m.thermal_conductivity, m.specific_heat_capacity, m.density)

\* Mutant of get: the message repeats the label where the key belongs.
get_label_for_key(h, key, label) ==
    IF key \in DOMAIN h THEN Ok(h[key]) ELSE Err(MsgNotFound, <<label, label>>)

get(h, key, label) ==
    IF key \in DOMAIN h THEN Ok(h[key]) ELSE Err(MsgNotFound, <<label, key>>)

-----------------------------------------------------------------------------
(* as_loaded::BoundaryLayer and as_loaded::BoundaryType *)

Layer(material, thickness) ==
    [kind |-> "Layer", material |-> material, thickness |-> thickness]
Marker(marker) == [kind |-> "Marker", marker |-> marker]

Simple(u, g) == [kind |-> "Simple", u |-> u, g |-> g]
Layered(layers) == [kind |-> "Layered", layers |-> layers]

is_marker(layer) == layer.kind = "Marker"

Panic == [ok |-> FALSE, msg |-> "panic", args |-> <<>>]

\* Mutant of layer_convert: the error says "layer" where the name of the
\* material belongs.
layer_convert_wrong_name(layer, materials) ==
    IF is_marker(layer) THEN Panic
    ELSE IF layer.material \in DOMAIN materials
         THEN Ok([material |-> materials[layer.material],
                  thickness |-> layer.thickness, following_marker |-> None])
         ELSE Err(MsgNotFound, <<"material", "layer">>)

\* as_loaded::BoundaryLayer::convert
layer_convert(layer, materials) ==
    IF is_marker(layer) THEN Panic
    ELSE LET m == get(materials, layer.material, "material") IN
         IF m.ok
         THEN Ok([material |-> m.val, thickness |-> layer.thickness,
                  following_marker |-> None])
         ELSE m

\* Mutant of check_layers: prev_is_marker is never updated, so that successive
\* markers go unnoticed.
RECURSIVE check_layers_prev_stale(_, _, _, _, _)
check_layers_prev_stale(layers, i, prev_is_marker, have_non_marker, name) ==
    IF i > Len(layers)
    THEN IF ~have_non_marker THEN Err(MsgNoLayer, <<name>>) ELSE Ok(TRUE)
    ELSE IF layers[i].kind = "Marker" /\ prev_is_marker
         THEN Err(MsgConsecutive, <<name>>)
         ELSE check_layers_prev_stale(layers, i + 1, prev_is_marker,
                                      have_non_marker \/ layers[i].kind # "Marker", name)

\* The verification loop of as_loaded::BoundaryType::convert and the test that
\* follows it: i is the position of the iterator.
RECURSIVE check_layers(_, _, _, _, _)
check_layers(layers, i, prev_is_marker, have_non_marker, name) ==
    IF i > Len(layers)
    THEN IF ~have_non_marker THEN Err(MsgNoLayer, <<name>>) ELSE Ok(TRUE)
    ELSE LET marker == is_marker(layers[i]) IN
         IF marker /\ prev_is_marker
         THEN Err(MsgConsecutive, <<name>>)
         ELSE check_layers(layers, i + 1, marker, have_non_marker \/ ~marker, name)

\* Mutant of convert_layers: a marker is attached to the first converted layer
\* where the last one belongs.
RECURSIVE convert_layers_first(_, _, _)
convert_layers_first(it, out_layers, materials) ==
    IF it = <<>> THEN Ok(out_layers)
    ELSE LET layer == Head(it) IN
         IF is_marker(layer)
         THEN IF out_layers = <<>> THEN Panic
              ELSE IF out_layers[1].following_marker # None THEN Panic
              ELSE convert_layers_first(Tail(it),
                       [out_layers EXCEPT ![1].following_marker = Some(layer.marker)],
                       materials)
         ELSE LET r == layer_convert(layer, materials) IN
              IF r.ok THEN convert_layers_first(Tail(it), Append(out_layers, r.val), materials)
              ELSE r

\* The loop "for layer in it" of as_loaded::BoundaryType::convert.
RECURSIVE convert_layers(_, _, _)
convert_layers(it, out_layers, materials) ==
    IF it = <<>> THEN Ok(out_layers)
    ELSE LET layer == Head(it) IN
         IF is_marker(layer)
         THEN IF out_layers = <<>> THEN Panic
              ELSE IF out_layers[Len(out_layers)].following_marker # None THEN Panic
              ELSE convert_layers(Tail(it),
                       [out_layers EXCEPT ![Len(out_layers)].following_marker =
                                              Some(layer.marker)],
                       materials)
         ELSE LET r == layer_convert(layer, materials) IN
              IF r.ok THEN convert_layers(Tail(it), Append(out_layers, r.val), materials)
              ELSE r

\* as_loaded::BoundaryType::convert
boundary_type_convert(bt, name, materials) ==
    IF bt.kind = "Simple"
    THEN Ok([kind |-> "Simple", name |-> name, u |-> bt.u, g |-> bt.g])
    ELSE LET verified == check_layers(bt.layers, 1, FALSE, FALSE, name) IN
         IF ~verified.ok THEN verified
         ELSE LET first_is_marker == is_marker(Head(bt.layers))
                  initial_marker == IF first_is_marker
                                    THEN Some(Head(bt.layers).marker) ELSE None
                  it == IF first_is_marker THEN Tail(bt.layers) ELSE bt.layers
                  out == convert_layers(it, <<>>, materials)
              IN IF out.ok
                 THEN Ok([kind |-> "Layered", name |-> name, layers |-> out.val,
                          initial_marker |-> initial_marker])
                 ELSE out

-----------------------------------------------------------------------------
(* Model::try_from, src/src/model.rs *)

reserved_outer_zones == <<"outside", "ground">>

\* Mutant of reserved_check: only the first reserved name is tested.
reserved_check_first_only(zones) ==
    IF reserved_outer_zones[1] \in DOMAIN zones
    THEN Err(MsgReserved, <<reserved_outer_zones[1]>>)
    ELSE Ok(TRUE)

\* for z in reserved_outer_zones.iter() { if value.zones.contains_key(z) { bail } }
reserved_check(zones) ==
    LET hits == {i \in DOMAIN reserved_outer_zones :
                    reserved_outer_zones[i] \in DOMAIN zones} IN
    IF hits = {} THEN Ok(TRUE)
    ELSE Err(MsgReserved,
             <<reserved_outer_zones[CHOOSE i \in hits : \A j \in hits : i <= j]>>)

\* Mutant of materials_with_air: the default air is inserted unconditionally.
materials_with_air_forced(materials) ==
    (default_air.name :> default_air) @@
        [name \in DOMAIN materials |-> material_convert(materials[name], name)]

\* The material catalog after conversion and after the default air was added.
materials_with_air(materials) ==
    LET converted == [name \in DOMAIN materials |->
                          material_convert(materials[name], name)] IN
    IF default_air.name \in DOMAIN converted THEN converted
    ELSE (default_air.name :> default_air) @@ converted

\* Mutant of Zone: the zone does not get the name of its key.
Zone_unnamed(name, volume) == [name |-> "", volume |-> volume]

Zone(name, volume) == [name |-> name, volume |-> volume]

\* Mutant of zones_with_outer: the reserved zones get a volume like the others.
zones_with_outer_inner(zones) ==
    [name \in DOMAIN zones \cup Range(reserved_outer_zones) |->
        IF name \in DOMAIN zones THEN Zone(name, Some(zones[name].volume))
        ELSE Zone(name, Some(0))]

\* The user zones as inner zones, then the reserved outer zones inserted.
zones_with_outer(zones) ==
    LET converted == [name \in DOMAIN zones |-> Zone(name, Some(zones[name].volume))] IN
    [name \in DOMAIN converted \cup Range(reserved_outer_zones) |->
        IF name \in Range(reserved_outer_zones) THEN Zone(name, None)
        ELSE converted[name]]

Boundary(boundary_type, zones, area) ==
    [boundary_type |-> boundary_type, zones |-> zones, area |-> area]

\* Mutant of Return: a failure hands out the boundaries converted so far.
Return_partial(r) ==
    /\ result' = Some(IF r.ok THEN r
                      ELSE [ok |-> FALSE, msg |-> r.msg, args |-> r.args,
                            val |-> [zones |-> converted_zones,
                                     boundaries |-> converted_boundaries]])
    /\ pc' = "done"

\* try_from returns: Ok(Model) at its end, or the first Err through ? or bail!.
Return(r) ==
    /\ result' = Some(r)
    /\ pc' = "done"

CheckReservedZones ==
    /\ pc = "reserved"
    /\ LET checked == reserved_check(value.zones) IN
       IF checked.ok THEN pc' = "materials" /\ result' = result
       ELSE Return(checked)
    /\ UNCHANGED <<network_vars, influx_vars>>
    /\ UNCHANGED <<value, pending_zones, converted_materials, converted_boundary_types, pending_types,
                   converted_zones, converted_boundaries, bi, si, remaining_area,
                   zone_pair>>

ConvertMaterials ==
    /\ pc = "materials"
    /\ converted_materials' = materials_with_air(value.materials)
    /\ pending_types' = DOMAIN value.boundary_types
    /\ pc' = "boundary_types"
    /\ UNCHANGED <<network_vars, influx_vars>>
    /\ UNCHANGED <<value, pending_zones, converted_boundary_types, converted_zones,
                   converted_boundaries, bi, si, remaining_area, zone_pair, result>>

\* Mutant of ConvertBoundaryType: a boundary type that no Boundary entry names
\* is skipped.
ConvertBoundaryType_referenced_only ==
    /\ pc = "boundary_types"
    /\ \E name \in pending_types :
         LET converted == boundary_type_convert(value.boundary_types[name], name,
                                                converted_materials)
             referenced == \E i \in DOMAIN value.boundaries :
                               \/ value.boundaries[i].boundary_type = name
                               \/ \E j \in DOMAIN value.boundaries[i].sub_boundaries :
                                      value.boundaries[i].sub_boundaries[j].boundary_type = name
         IN
         IF ~referenced
         THEN /\ pending_types' = pending_types \ {name}
              /\ UNCHANGED <<converted_boundary_types, pc, result>>
         ELSE IF converted.ok
         THEN /\ converted_boundary_types' =
                     (name :> converted.val) @@ converted_boundary_types
              /\ pending_types' = pending_types \ {name}
              /\ pc' = pc
              /\ result' = result
         ELSE /\ Return(converted)
              /\ UNCHANGED <<converted_boundary_types, pending_types>>
    /\ UNCHANGED <<network_vars, influx_vars>>
    /\ UNCHANGED <<value, pending_zones, converted_materials, converted_zones, converted_boundaries,
                   bi, si, remaining_area, zone_pair>>

\* One item of value.boundary_types.into_iter(): a HashMap yields its entries in
\* an unspecified order, and collect() stops at the first Err.
ConvertBoundaryType ==
    /\ pc = "boundary_types"
    /\ \E name \in pending_types :
         LET converted == boundary_type_convert(value.boundary_types[name], name,
                                                converted_materials) IN
         IF converted.ok
         THEN /\ converted_boundary_types' =
                     (name :> converted.val) @@ converted_boundary_types
              /\ pending_types' = pending_types \ {name}
              /\ pc' = pc
              /\ result' = result
         ELSE /\ Return(converted)
              /\ UNCHANGED <<converted_boundary_types, pending_types>>
    /\ UNCHANGED <<network_vars, influx_vars>>
    /\ UNCHANGED <<value, pending_zones, converted_materials, converted_zones, converted_boundaries,
                   bi, si, remaining_area, zone_pair>>

ConvertZones ==
    /\ pc = "boundary_types"
    /\ pending_types = {}
    /\ converted_zones' = zones_with_outer(value.zones)
    /\ converted_boundaries' = <<>>
    /\ bi' = 1
    /\ pc' = "boundaries"
    /\ UNCHANGED <<network_vars, influx_vars>>
    /\ UNCHANGED <<value, pending_zones, converted_materials, converted_boundary_types, pending_types,
                   si, remaining_area, zone_pair, result>>

\* Head of the loop body: remaining_area and the two zone lookups.
BeginBoundary ==
    /\ pc = "boundaries"
    /\ bi <= Len(value.boundaries)
    /\ LET boundary == value.boundaries[bi]
           z0 == get(converted_zones, boundary.zones[1], "zone")
           z1 == get(converted_zones, boundary.zones[2], "zone")
       IN IF ~z0.ok THEN Return(z0) /\ UNCHANGED <<zone_pair, remaining_area, si>>
          ELSE IF ~z1.ok THEN Return(z1) /\ UNCHANGED <<zone_pair, remaining_area, si>>
          ELSE /\ remaining_area' = boundary.area
               /\ zone_pair' = <<z0.val, z1.val>>
               /\ si' = 1
               /\ pc' = "sub_boundaries"
               /\ result' = result
    /\ UNCHANGED <<network_vars, influx_vars>>
    /\ UNCHANGED <<value, pending_zones, converted_materials, converted_boundary_types, pending_types,
                   converted_zones, converted_boundaries, bi>>

\* The area test of one sub-boundary: Some(error) when it does not fit.
area_check(sub_area, remaining, zones) ==
    IF sub_area > remaining THEN Some(Err(MsgArea, zones)) ELSE None

\* Mutant of remaining_after: the sub-boundary's area is not subtracted.
remaining_after_kept(remaining, sub_area) == remaining

\* remaining_area -= sub_boundary.area
remaining_after(remaining, sub_area) == remaining - sub_area

\* Mutant of ConvertSubBoundary: the boundary type of the sub-boundary is
\* looked up before its area is tested.
ConvertSubBoundary_type_first ==
    /\ pc = "sub_boundaries"
    /\ si <= Len(value.boundaries[bi].sub_boundaries)
    /\ LET boundary == value.boundaries[bi]
           sub_boundary == boundary.sub_boundaries[si]
           too_large == area_check(sub_boundary.area, remaining_area, boundary.zones)
           bt == get(converted_boundary_types, sub_boundary.boundary_type,
                     "boundary type")
       IN IF ~bt.ok
          THEN Return(bt) /\ UNCHANGED <<remaining_area, converted_boundaries, si>>
          ELSE IF too_large # None
          THEN Return(too_large[1])
               /\ UNCHANGED <<remaining_area, converted_boundaries, si>>
          ELSE /\ remaining_area' = remaining_after(remaining_area, sub_boundary.area)
               /\ converted_boundaries' =
                      Append(converted_boundaries,
                             Boundary(bt.val, zone_pair, sub_boundary.area))
               /\ si' = si + 1
               /\ pc' = pc
               /\ result' = result
    /\ UNCHANGED <<network_vars, influx_vars>>
    /\ UNCHANGED <<value, pending_zones, converted_materials, converted_boundary_types, pending_types,
                   converted_zones, bi, zone_pair>>

\* One iteration of "for sub_boundary in boundary.sub_boundaries".
ConvertSubBoundary ==
    /\ pc = "sub_boundaries"
    /\ si <= Len(value.boundaries[bi].sub_boundaries)
    /\ LET boundary == value.boundaries[bi]
           sub_boundary == boundary.sub_boundaries[si]
           too_large == area_check(sub_boundary.area, remaining_area, boundary.zones)
           bt == get(converted_boundary_types, sub_boundary.boundary_type,
                     "boundary type")
       IN IF too_large # None
          THEN Return(too_large[1])
               /\ UNCHANGED <<remaining_area, converted_boundaries, si>>
          ELSE IF ~bt.ok
          THEN Return(bt) /\ UNCHANGED <<remaining_area, converted_boundaries, si>>
          ELSE /\ remaining_area' = remaining_after(remaining_area, sub_boundary.area)
               /\ converted_boundaries' =
                      Append(converted_boundaries,
                             Boundary(bt.val, zone_pair, sub_boundary.area))
               /\ si' = si + 1
               /\ pc' = pc
               /\ result' = result
    /\ UNCHANGED <<network_vars, influx_vars>>
    /\ UNCHANGED <<value, pending_zones, converted_materials, converted_boundary_types, pending_types,
                   converted_zones, bi, zone_pair>>

\* After the sub-boundaries: the Boundary of the remaining area.
FinishBoundary ==
    /\ pc = "sub_boundaries"
    /\ si > Len(value.boundaries[bi].sub_boundaries)
    /\ LET boundary == value.boundaries[bi]
           bt == get(converted_boundary_types, boundary.boundary_type, "boundary type")
       IN IF ~bt.ok THEN Return(bt) /\ UNCHANGED <<converted_boundaries, bi>>
          ELSE /\ converted_boundaries' =
                      Append(converted_boundaries,
                             Boundary(bt.val, zone_pair, remaining_area))
               /\ bi' = bi + 1
               /\ pc' = "boundaries"
               /\ result' = result
    /\ UNCHANGED <<network_vars, influx_vars>>
    /\ UNCHANGED <<value, pending_zones, converted_materials, converted_boundary_types, pending_types,
                   converted_zones, si, remaining_area, zone_pair>>

\* What try_from returns after the loop over the boundaries.
finished_model(zones, boundaries, materials) ==
    LET air == get(materials, "air", "material") IN
    IF air.ok
    THEN Ok([zones |-> zones, boundaries |-> boundaries, air |-> air.val])
    ELSE air

Finish ==
    /\ pc = "boundaries"
    /\ bi > Len(value.boundaries)
    /\ Return(finished_model(converted_zones, converted_boundaries, converted_materials))
    /\ UNCHANGED <<network_vars, influx_vars>>
    /\ UNCHANGED <<value, pending_zones, converted_materials, converted_boundary_types, pending_types,
                   converted_zones, converted_boundaries, bi, si, remaining_area,
                   zone_pair>>

-----------------------------------------------------------------------------
(* The explored documents (as_loaded::Model values) *)

Document(zones, boundaries, materials, boundary_types) ==
    [zones |-> zones, boundaries |-> boundaries, materials |-> materials,
     boundary_types |-> boundary_types]

LoadedBoundary(boundary_type, zones, area, sub_boundaries) ==
    [boundary_type |-> boundary_type, zones |-> zones, area |-> area,
     sub_boundaries |-> sub_boundaries]

SubBoundary(boundary_type, area) == [boundary_type |-> boundary_type, area |-> area]

SeqsUpTo(S, n) == UNION {[1..k -> S] : k \in 0..n}

\* as_loaded::Material values: the air of convert_model_defined_air and a solid.
UserAir == [thermal_conductivity |-> 999000, specific_heat_capacity |-> 999,
            density |-> 999000]
Brick == [thermal_conductivity |-> 1000, specific_heat_capacity |-> 2,
          density |-> 3000]

MaterialDocs ==
    {[name \in S |-> IF name = "air" THEN UserAir ELSE Brick] : S \in SUBSET {"air", "m1"}}

ZoneDocs ==
    UNION {[S -> [volume : 1..MaxVolume]] : S \in SUBSET {"z1", "z2", "outside", "ground"}}

TwoZones == ("z1" :> [volume |-> 1]) @@ ("z2" :> [volume |-> 2])

LayerEntries == {Marker("x"), Marker("y"), Layer("m1", 1), Layer("air", 2)}

TypeDocs ==
    {("bt1" :> t) @@ u :
        t \in {Simple(1, 50)} \cup {Layered(l) : l \in SeqsUpTo(LayerEntries, MaxLayers)},
        u \in {<<>>, "bt2" :> Layered(<<Layer("m1", 1)>>),
               "bt2" :> Layered(<<Marker("x")>>),
               "bt2" :> Layered(<<>>),
               "bt2" :> Layered(<<Layer("mX", 1)>>),
               "bt2" :> Layered(<<Layer("m1", 1), Marker("x"), Marker("y")>>)}}

TwoTypes == ("bt1" :> Simple(1, 50)) @@ ("bt2" :> Layered(<<Layer("m1", 1), Marker("x")>>))

\* Documents that vary the zone and the material catalogs.
ZoneDocuments ==
    {Document(z, b, m, TwoTypes) :
        z \in ZoneDocs, m \in MaterialDocs,
        b \in {<<>>, <<LoadedBoundary("bt1", <<"z1", "outside">>, 1, <<>>)>>}}

\* Documents that vary the boundary-type and the material catalogs.
TypeDocuments ==
    {Document(TwoZones,
              <<LoadedBoundary("bt1", <<"z1", "z2">>, 2, <<SubBoundary("bt1", 1)>>)>>,
              m, t) :
        m \in MaterialDocs, t \in TypeDocs}

ZonePairs ==
    {<<"z1", "z2">>, <<"z2", "z1">>, <<"ground", "z1">>, <<"z1", "zX">>,
     <<"zX", "z2">>, <<"zX", "zY">>, <<"z1", "z1">>}

\* Documents of one Boundary entry that vary its zones, types, area and
\* sub-boundaries; a sub-boundary area may be negative, the parser takes any number.
BoundaryDocuments ==
    {Document(TwoZones, <<LoadedBoundary(bt, zs, a, sub)>>, "m1" :> Brick, TwoTypes) :
        bt \in {"bt1", "btX"}, zs \in ZonePairs, a \in 0..MaxArea,
        sub \in SeqsUpTo([boundary_type : {"bt2", "btY"}, area : -1..MaxArea], MaxSubs)}

SimpleEntries ==
    {LoadedBoundary("bt1", <<"z1", "z2">>, 2, <<>>),
     LoadedBoundary("bt2", <<"z2", "outside">>, 1, <<SubBoundary("bt1", 1)>>),
     LoadedBoundary("bt1", <<"z1", "z2">>, 1, <<SubBoundary("bt2", 2)>>),
     LoadedBoundary("bt1", <<"z1", "ground">>, 2,
                    <<SubBoundary("bt2", 1), SubBoundary("bt1", 1)>>),
     LoadedBoundary("btX", <<"z2", "z1">>, 1, <<>>),
     LoadedBoundary("bt2", <<"zX", "z1">>, 1, <<>>)}

\* Documents of several Boundary entries.
SequenceDocuments ==
    {Document(TwoZones, b, "m1" :> Brick, TwoTypes) :
        b \in SeqsUpTo(SimpleEntries, MaxBoundaries)}

Documents == BoundaryDocuments \cup (ZoneDocuments \cup TypeDocuments \cup SequenceDocuments)

-----------------------------------------------------------------------------

\* No InfluxDB has been configured.
InfluxIdle ==
    /\ zone_mappings = <<>>
    /\ pending_mappings = {}
    /\ influx_zones = <<>>
    /\ db = <<>>
    /\ influx_pc = "idle"
    /\ zone_arg = None
    /\ mi = 0
    /\ read_result = <<>>
    /\ queries_run = <<>>
    /\ returned = None

Init ==
    /\ value \in Documents
    /\ pc = "reserved"
    /\ converted_materials = <<>>
    /\ converted_boundary_types = <<>>
    /\ pending_types = {}
    /\ converted_zones = <<>>
    /\ converted_boundaries = <<>>
    /\ bi = 0
    /\ si = 0
    /\ remaining_area = 0
    /\ zone_pair = <<>>
    /\ pending_zones = {}
    /\ result = None
    /\ json = None
    /\ graph = [nodes |-> <<>>, edges |-> <<>>]
    /\ zone_indices = <<>>
    /\ marker_indices = <<>>
    /\ boundary_group_index = 0
    /\ network = None
    /\ built_before = None
    /\ InfluxIdle

Next ==
    \/ CheckReservedZones
    \/ ConvertMaterials
    \/ ConvertBoundaryType
    \/ ConvertZones
    \/ BeginBoundary
    \/ ConvertSubBoundary
    \/ FinishBoundary
    \/ Finish

Spec == Init /\ [][Next]_vars

-----------------------------------------------------------------------------
(* Vocabulary of the properties *)

Done == pc = "done"
Res == result[1]
Failed == Done /\ ~Res.ok
Loaded == Done /\ Res.ok

\* The message of error e contains the name n.
Names(e, n) == n \in Range(e.args)

ReservedNames == {"outside", "ground"}

DeclaredTypes == DOMAIN value.boundary_types
DeclaredMaterials == DOMAIN value.materials
DeclaredZones == DOMAIN value.zones

SubAreas(b) == [i \in DOMAIN b.sub_boundaries |-> b.sub_boundaries[i].area]

-----------------------------------------------------------------------------
\* C1: a document that defines a zone named "outside" or "ground" is rejected
\* before anything is converted; the error is the reserved-zone-name error and
\* the one name it contains is a reserved name that the document defines.
C1_ReservedZoneRejected ==
    (DeclaredZones \cap ReservedNames # {}) =>
        /\ pc \in {"reserved", "done"}
        /\ Done => /\ ~Res.ok
                   /\ Res.msg = MsgReserved
                   /\ Len(Res.args) = 1
                   /\ Res.args[1] \in DeclaredZones \cap ReservedNames

C1_Witness ==
    /\ Failed
    /\ "ground" \in DeclaredZones
    /\ "outside" \notin DeclaredZones
    /\ Res.msg = MsgReserved
    /\ Res.args = <<"ground">>

\* C2: a loaded Model has "outside" and "ground" as zones without volume and,
\* for every zone the document declares, a zone of that name and that volume;
\* it has no other zone, so a document without zones gives exactly the two.
C2_ZonesOfLoadedModel ==
    Loaded =>
        LET zones == Res.val.zones IN
        /\ DOMAIN zones = DeclaredZones \cup ReservedNames
        /\ \A n \in ReservedNames : zones[n] = [name |-> n, volume |-> <<>>]
        /\ \A n \in DeclaredZones :
               zones[n] = [name |-> n, volume |-> <<value.zones[n].volume>>]
        /\ (DeclaredZones = {} => Cardinality(DOMAIN zones) = 2)

C2_Witness ==
    /\ Loaded
    /\ DeclaredZones = {"z1", "z2"}
    /\ value.zones["z1"].volume # value.zones["z2"].volume
    /\ Cardinality(DOMAIN Res.val.zones) = 4

-----------------------------------------------------------------------------
(* References of the Boundary entries *)

KnownZones == DeclaredZones \cup ReservedNames

TypesOf(b) == {b.boundary_type} \cup {b.sub_boundaries[i].boundary_type :
                                         i \in DOMAIN b.sub_boundaries}

\* Boundary entry b names a zone or a boundary type that does not exist.
Dangling(b) ==
    \/ \E i \in 1..2 : b.zones[i] \notin KnownZones
    \/ TypesOf(b) \ DeclaredTypes # {}

\* The load failed in a lookup of a zone or of a boundary type; such lookups
\* are made for the Boundary entry bi only.
FailedReference ==
    /\ Failed
    /\ Res.msg = MsgNotFound
    /\ Res.args[1] \in {"zone", "boundary type"}

\* C3 as stated: the error of a Boundary's missing zone or boundary type
\* contains both zone names of that Boundary.
C3_Original ==
    FailedReference =>
        /\ Names(Res, value.boundaries[bi].zones[1])
        /\ Names(Res, value.boundaries[bi].zones[2])

\* C3 as amended: a Boundary entry that names a missing zone or boundary type
\* makes the load fail; the error of that lookup says which kind of object was
\* not found and contains the missing name, and nothing else.
C3_MissingReferenceNamed ==
    /\ (Done /\ \E i \in DOMAIN value.boundaries : Dangling(value.boundaries[i]))
           => ~Res.ok
    /\ FailedReference =>
           LET b == value.boundaries[bi] IN
           /\ Len(Res.args) = 2
           /\ Res.args[1] = "zone" =>
                  /\ Res.args[2] \in {b.zones[1], b.zones[2]}
                  /\ Res.args[2] \notin KnownZones
           /\ Res.args[1] = "boundary type" =>
                  /\ Res.args[2] \in TypesOf(b)
                  /\ Res.args[2] \notin DeclaredTypes

C3_Witness ==
    /\ FailedReference
    /\ Res.args = <<"boundary type", "btY">>
    /\ value.boundaries[bi].zones = <<"z1", "z2">>

-----------------------------------------------------------------------------
(* Materials of the layered boundary types *)

KnownMaterials == DeclaredMaterials \cup {"air"}

LayersOf(name) ==
    IF value.boundary_types[name].kind = "Layered"
    THEN value.boundary_types[name].layers ELSE <<>>

MaterialsOf(name) ==
    {LayersOf(name)[i].material :
        i \in {j \in DOMAIN LayersOf(name) : LayersOf(name)[j].kind = "Layer"}}

FailedMaterial ==
    /\ Failed
    /\ Res.msg = MsgNotFound
    /\ Res.args[1] = "material"

\* C4 as stated: the error of a missing layer material contains the name of
\* the boundary type and the name of the material.
C4_Original ==
    FailedMaterial =>
        \E name \in DeclaredTypes :
            /\ Names(Res, name)
            /\ \E m \in MaterialsOf(name) \ KnownMaterials : Names(Res, m)

\* C4 as amended: a layer whose material is neither declared nor "air" makes
\* the load fail; the error of that lookup says a material was not found and
\* contains the name of the missing material of some layer, and no other name.
C4_MissingMaterialNamed ==
    /\ (Done /\ \E name \in DeclaredTypes : MaterialsOf(name) \ KnownMaterials # {})
           => ~Res.ok
    /\ FailedMaterial =>
           /\ Len(Res.args) = 2
           /\ Res.args[2] \notin KnownMaterials
           /\ \E name \in DeclaredTypes : Res.args[2] \in MaterialsOf(name)
           /\ \A name \in DeclaredTypes : ~Names(Res, name)

C4_Witness ==
    /\ FailedMaterial
    /\ Res.args = <<"material", "m1">>
    /\ "air" \notin DeclaredMaterials
    /\ \E name \in DeclaredTypes : {"air", "m1"} \subseteq MaterialsOf(name)

-----------------------------------------------------------------------------
(* Structure of a layer list *)

Empty(layers) == Len(layers) = 0
OnlyMarkers(layers) == \A i \in DOMAIN layers : layers[i].kind = "Marker"
SuccessiveMarkers(layers) ==
    \E i \in DOMAIN layers :
        /\ i + 1 \in DOMAIN layers
        /\ layers[i].kind = "Marker"
        /\ layers[i + 1].kind = "Marker"

Malformed(layers) == Empty(layers) \/ OnlyMarkers(layers) \/ SuccessiveMarkers(layers)

FailedStructure == Failed /\ Res.msg \in {MsgConsecutive, MsgNoLayer}

\* C5: converting a layered boundary type whose layer list is empty, has only
\* markers or has two markers in succession fails with an error that contains
\* the name of the boundary type; the conversion of any other layer list gets
\* past the structural check (it succeeds, or fails in a material lookup).  The
\* load reports such an error only for a malformed type and converts none.
C5_LayerStructure ==
    /\ \A name \in DeclaredTypes :
           value.boundary_types[name].kind = "Layered" =>
               LET r == boundary_type_convert(value.boundary_types[name], name,
                                              materials_with_air(value.materials))
               IN IF Malformed(LayersOf(name))
                  THEN ~r.ok /\ r.msg \in {MsgConsecutive, MsgNoLayer}
                             /\ r.args = <<name>>
                  ELSE r.ok \/ (r.msg = MsgNotFound /\ r.args[1] = "material")
    /\ \A name \in DOMAIN converted_boundary_types :
           value.boundary_types[name].kind = "Layered" => ~Malformed(LayersOf(name))
    /\ FailedStructure =>
           /\ Len(Res.args) = 1
           /\ Res.args[1] \in DeclaredTypes
           /\ value.boundary_types[Res.args[1]].kind = "Layered"
           /\ Malformed(LayersOf(Res.args[1]))
    /\ (Done /\ \E name \in DeclaredTypes :
                   /\ value.boundary_types[name].kind = "Layered"
                   /\ Malformed(LayersOf(name)))
           => ~Res.ok

C5_Witness ==
    /\ FailedStructure
    /\ Res.msg = MsgConsecutive
    /\ Res.args = <<"bt1">>
    /\ LayersOf("bt1")[1].kind = "Layer"

-----------------------------------------------------------------------------
(* Area accounting of a Boundary entry *)

Entry == value.boundaries[bi]

FailedArea == Failed /\ Res.msg = MsgArea

\* The sub-boundary loop of the entry bi has run to its end.
PassedAreaChecks == pc = "sub_boundaries" /\ si > Len(Entry.sub_boundaries)

\* Sub-boundary j of entry b does not fit in what its predecessors left.
Overdraws(b, j) == b.sub_boundaries[j].area > b.area - SumSeq(SubSeq(SubAreas(b), 1, j - 1))

\* C6 as stated: the load fails in the area check of a Boundary, with an error
\* that contains both of its zone names, exactly when the areas of its
\* sub-boundaries sum to more than its declared area.
C6_Original ==
    /\ FailedArea => /\ Res.args = Entry.zones
                     /\ SumSeq(SubAreas(Entry)) > Entry.area
    /\ PassedAreaChecks => SumSeq(SubAreas(Entry)) <= Entry.area

\* What the code does instead: the area check fails at the first sub-boundary
\* whose area exceeds the declared area minus the areas before it; with
\* sub-boundary areas that are not negative this is the stated condition.
AreaCheckIsSequential ==
    /\ FailedArea => /\ Res.args = Entry.zones
                     /\ si \in DOMAIN Entry.sub_boundaries
                     /\ Overdraws(Entry, si)
                     /\ \A j \in 1..(si - 1) : ~Overdraws(Entry, j)
    /\ PassedAreaChecks => \A j \in DOMAIN Entry.sub_boundaries : ~Overdraws(Entry, j)
    /\ (FailedArea /\ \A j \in DOMAIN Entry.sub_boundaries :
                          Entry.sub_boundaries[j].area >= 0)
           => SumSeq(SubAreas(Entry)) > Entry.area

-----------------------------------------------------------------------------
(* Expansion of the Boundary entries *)

\* Number of Model boundaries made of the entries before entry i.
RECURSIVE Offset(_)
Offset(i) == IF i <= 1 THEN 0
             ELSE Offset(i - 1) + Len(value.boundaries[i - 1].sub_boundaries) + 1

\* Model boundary x is of type t, between the zones of entry b in their
\* declared order, and of area a.
Expands(x, b, t, a) ==
    /\ x.boundary_type.name = t
    /\ x.zones[1].name = b.zones[1]
    /\ x.zones[2].name = b.zones[2]
    /\ Len(x.zones) = 2
    /\ x.area = a

-----------------------------------------------------------------------------
(* Validity of a document *)

ValidType(name) ==
    value.boundary_types[name].kind = "Layered" =>
        /\ ~Malformed(LayersOf(name))
        /\ MaterialsOf(name) \subseteq KnownMaterials

ValidBoundary(b) ==
    /\ ~Dangling(b)
    /\ \A j \in DOMAIN b.sub_boundaries : ~Overdraws(b, j)

ValidDocument ==
    /\ DeclaredZones \cap ReservedNames = {}
    /\ \A name \in DeclaredTypes : ValidType(name)
    /\ \A i \in DOMAIN value.boundaries : ValidBoundary(value.boundaries[i])

\* C8: try_from returns either Ok with a complete Model (every zone, every
\* boundary of every entry, the air) or an error that carries no Model at all,
\* whatever had been converted when the failure was met; it returns the error
\* exactly when some validation of the document fails.
C8_AllOrNothing ==
    Done =>
        /\ Res.ok <=> ValidDocument
        /\ Res.ok =>
               /\ DOMAIN Res = {"ok", "val"}
               /\ DOMAIN Res.val = {"zones", "boundaries", "air"}
               /\ DOMAIN Res.val.zones = DeclaredZones \cup ReservedNames
               /\ Len(Res.val.boundaries) = Offset(Len(value.boundaries) + 1)
        /\ ~Res.ok => DOMAIN Res = {"ok", "msg", "args"}

C8_Witness ==
    /\ Failed
    /\ bi = 2
    /\ Len(converted_boundaries) >= 2
    /\ DOMAIN converted_zones # {}
    /\ DOMAIN Res = {"ok", "msg", "args"}

-----------------------------------------------------------------------------
(* The air *)

ExpectedAir ==
    IF "air" \in DeclaredMaterials
    THEN [name |-> "air",
          thermal_conductivity |-> value.materials["air"].thermal_conductivity,
          specific_heat_capacity |-> value.materials["air"].specific_heat_capacity,
          density |-> value.materials["air"].density]
    ELSE [name |-> "air", thermal_conductivity |-> 26,
          specific_heat_capacity |-> 1012, density |-> 1199]

\* C9: the air of a loaded Model is the document's material "air" when it has
\* one and otherwise the default (0.026, 1012, 1.199); every layer of a
\* converted boundary type whose material is named "air" has that same air.
C9_Air ==
    /\ Loaded => Res.val.air = ExpectedAir
    /\ \A name \in DOMAIN converted_boundary_types :
           LET t == converted_boundary_types[name] IN
           t.kind = "Layered" =>
               \A i \in DOMAIN t.layers :
                   /\ t.layers[i].material.name = LayersOf(name)[
                          CHOOSE j \in DOMAIN LayersOf(name) :
                              /\ LayersOf(name)[j].kind = "Layer"
                              /\ Cardinality({m \in 1..j : LayersOf(name)[m].kind = "Layer"}) = i
                      ].material
                   /\ t.layers[i].material.name = "air" => t.layers[i].material = ExpectedAir

C9_Witness ==
    /\ Loaded
    /\ "air" \notin DeclaredMaterials
    /\ Res.val.air.density = 1199
    /\ \E name \in DOMAIN converted_boundary_types :
           /\ converted_boundary_types[name].kind = "Layered"
           /\ \E i \in DOMAIN converted_boundary_types[name].layers :
                  converted_boundary_types[name].layers[i].material.name = "air"

-----------------------------------------------------------------------------
(* Model::try_from, src/MPCHomeControl/src/model.rs: the loader with the    *)
(* adjacent-zone shorthand.  A zone is Inner{volume} or Outer and has no    *)
(* name; an Rc<Zone> is the zone together with the place that allocated it: *)
(* <<zone name, 0>> for the zone of an entry and <<zone name, j>> for the   *)
(* zone made of its j-th adjacent zone.                                     *)

LoadedInner(volume, adjacent_zones) ==
    [kind |-> "Inner", volume |-> volume, adjacent_zones |-> adjacent_zones]
LoadedOuter == [kind |-> "Outer"]

AdjacentZone(suffix, boundary_type, area) ==
    [suffix |-> suffix, boundary_type |-> boundary_type, area |-> area]

Inner(volume) == [kind |-> "Inner", volume |-> volume]
Outer == [kind |-> "Outer"]

Rc(id, zone) == [id |-> id, zone |-> zone]

\* as_loaded::BoundaryLayer::convert
mpc_layer_convert(layer, materials) ==
    LET m == get(materials, layer.material, "material") IN
    IF m.ok THEN Ok([material |-> m.val, thickness |-> layer.thickness]) ELSE m

\* layers.into_iter().map(convert).collect::<Result<Vec<_>>>()
RECURSIVE mpc_collect_layers(_, _, _)
mpc_collect_layers(it, out, materials) ==
    IF it = <<>> THEN Ok(out)
    ELSE LET r == mpc_layer_convert(Head(it), materials) IN
         IF r.ok THEN mpc_collect_layers(Tail(it), Append(out, r.val), materials) ELSE r

\* as_loaded::BoundaryType::convert
mpc_boundary_type_convert(bt, name, materials) ==
    IF bt.kind = "Simple"
    THEN Ok([kind |-> "Simple", name |-> name, u |-> bt.u, g |-> bt.g])
    ELSE LET out == mpc_collect_layers(bt.layers, <<>>, materials) IN
         IF out.ok THEN Ok([kind |-> "Layered", name |-> name, layers |-> out.val])
         ELSE out

\* format!("{}/{}", zone_name, adjacent_zone.suffix)
adjacent_name(zone_name, suffix) == zone_name \o "/" \o suffix

adjacent_of(zone) == IF zone.kind = "Inner" THEN zone.adjacent_zones ELSE <<>>

\* Default::default() of Volume
default_volume == 0

\* Mutant of adjacent_zone_rc: the zone gets the volume of its parent.
adjacent_zone_rc_parent_volume(zone_name, j, zone) == Rc(<<zone_name, j>>, Inner(zone.volume))

\* let adj_zone_rc = Rc::new(Zone::Inner { volume: Default::default() })
adjacent_zone_rc(zone_name, j, zone) == Rc(<<zone_name, j>>, Inner(default_volume))

\* let (zone_rc, adjacent_zones) = match zone { .. }
zone_rc_of(zone_name, zone) ==
    Rc(<<zone_name, 0>>, IF zone.kind = "Inner" THEN Inner(zone.volume) ELSE Outer)

\* The inserts of one iteration of the zone loop: the adjacent zones in their
\* order, a later insert under the same key replacing an earlier one, then
\* the zone itself.
zones_after(zones, zone_name, zone) ==
    LET adj == adjacent_of(zone)
        keys == {adjacent_name(zone_name, adj[j].suffix) : j \in DOMAIN adj}
        last(k) == CHOOSE j \in DOMAIN adj :
                       /\ adjacent_name(zone_name, adj[j].suffix) = k
                       /\ \A m \in DOMAIN adj :
                              adjacent_name(zone_name, adj[m].suffix) = k => m <= j
    IN (zone_name :> zone_rc_of(zone_name, zone))
           @@ [k \in keys |-> adjacent_zone_rc(zone_name, last(k), zone)]
           @@ zones

\* The boundaries pushed by one iteration of the zone loop.
adjacent_boundaries(zone_name, zone, types) ==
    LET adj == adjacent_of(zone) IN
    [j \in DOMAIN adj |->
        Boundary(types[adj[j].boundary_type],
                 <<zone_rc_of(zone_name, zone), adjacent_zone_rc(zone_name, j, zone)>>,
                 adj[j].area)]

\* The sub-boundary loop and the push that follows it, for one Boundary entry:
\* j is the next sub-boundary, out the boundaries pushed for this entry.
RECURSIVE mpc_expand(_, _, _, _, _, _)
mpc_expand(boundary, pair, types, j, remaining, out) ==
    IF j > Len(boundary.sub_boundaries)
    THEN LET bt == get(types, boundary.boundary_type, "boundary type") IN
         IF bt.ok THEN Ok(Append(out, Boundary(bt.val, pair, remaining))) ELSE bt
    ELSE LET sub_boundary == boundary.sub_boundaries[j]
             bt == get(types, sub_boundary.boundary_type, "boundary type")
         IN IF sub_boundary.area > remaining THEN Err(MsgArea, boundary.zones)
            ELSE IF ~bt.ok THEN bt
            ELSE mpc_expand(boundary, pair, types, j + 1, remaining - sub_boundary.area,
                            Append(out, Boundary(bt.val, pair, sub_boundary.area)))

\* The two catalogs: converted_materials and converted_boundary_types.  The
\* collect() of the boundary types stops at the first Err the HashMap yields.
MpcConvertCatalogs ==
    /\ pc = "mpc_start"
    /\ LET materials == [name \in DOMAIN value.materials |->
                            material_convert(value.materials[name], name)]
           results == [name \in DOMAIN value.boundary_types |->
                          mpc_boundary_type_convert(value.boundary_types[name], name,
                                                    materials)]
           failing == {name \in DOMAIN results : ~results[name].ok}
       IN /\ converted_materials' = materials
          /\ IF failing = {}
             THEN /\ converted_boundary_types' =
                         [name \in DOMAIN results |-> results[name].val]
                  /\ pending_zones' = DOMAIN value.zones
                  /\ pc' = "mpc_zones"
                  /\ result' = result
             ELSE /\ \E name \in failing : Return(results[name])
                  /\ UNCHANGED <<converted_boundary_types, pending_zones>>
    /\ UNCHANGED <<network_vars, influx_vars>>
    /\ UNCHANGED <<value, pending_types, converted_zones, converted_boundaries, bi, si,
                   remaining_area, zone_pair>>

\* One iteration of "for (zone_name, zone) in value.zones.into_iter()".  The
\* index converted_boundary_types[..] panics on a missing boundary type.
MpcConvertZone ==
    /\ pc = "mpc_zones"
    /\ \E zone_name \in pending_zones :
         LET zone == value.zones[zone_name]
             adj == adjacent_of(zone)
         IN IF \E j \in DOMAIN adj :
                   adj[j].boundary_type \notin DOMAIN converted_boundary_types
            THEN /\ Return(Panic)
                 /\ UNCHANGED <<converted_zones, converted_boundaries, pending_zones>>
            ELSE /\ converted_zones' = zones_after(converted_zones, zone_name, zone)
                 /\ converted_boundaries' =
                        converted_boundaries \o
                            adjacent_boundaries(zone_name, zone, converted_boundary_types)
                 /\ pending_zones' = pending_zones \ {zone_name}
                 /\ pc' = pc
                 /\ result' = result
    /\ UNCHANGED <<network_vars, influx_vars>>
    /\ UNCHANGED <<value, converted_materials, converted_boundary_types, pending_types,
                   bi, si, remaining_area, zone_pair>>

\* One iteration of "for boundary in value.boundaries.into_iter()".
MpcConvertBoundary ==
    /\ pc = "mpc_zones"
    /\ pending_zones = {}
    /\ bi < Len(value.boundaries)
    /\ LET boundary == value.boundaries[bi + 1]
           z0 == get(converted_zones, boundary.zones[1], "zone")
           z1 == get(converted_zones, boundary.zones[2], "zone")
       IN IF ~z0.ok THEN Return(z0) /\ UNCHANGED <<converted_boundaries, bi>>
          ELSE IF ~z1.ok THEN Return(z1) /\ UNCHANGED <<converted_boundaries, bi>>
          ELSE LET expanded == mpc_expand(boundary, <<z0.val, z1.val>>,
                                          converted_boundary_types, 1, boundary.area, <<>>)
               IN IF ~expanded.ok
                  THEN Return(expanded) /\ UNCHANGED <<converted_boundaries, bi>>
                  ELSE /\ converted_boundaries' = converted_boundaries \o expanded.val
                       /\ bi' = bi + 1
                       /\ pc' = pc
                       /\ result' = result
    /\ UNCHANGED <<network_vars, influx_vars>>
    /\ UNCHANGED <<value, converted_materials, converted_boundary_types, pending_types,
                   converted_zones, si, remaining_area, zone_pair, pending_zones>>

MpcFinish ==
    /\ pc = "mpc_zones"
    /\ pending_zones = {}
    /\ bi = Len(value.boundaries)
    /\ Return(Ok([zones |-> converted_zones, boundaries |-> converted_boundaries]))
    /\ UNCHANGED <<network_vars, influx_vars>>
    /\ UNCHANGED <<value, converted_materials, converted_boundary_types, pending_types,
                   converted_zones, converted_boundaries, bi, si, remaining_area,
                   zone_pair, pending_zones>>

(* The explored documents of this loader *)

AdjacentEntries ==
    {AdjacentZone(s, t, a) : s \in {"s", "t"}, t \in {"bt1", "btX"}, a \in 1..MaxArea}

RichZones ==
    {LoadedOuter} \cup
    {LoadedInner(v, adj) : v \in 1..MaxVolume, adj \in SeqsUpTo(AdjacentEntries, MaxAdjacent)}

MpcZoneDocs ==
    {("z1" :> z) @@ u :
        z \in RichZones,
        u \in {<<>>, "z2" :> LoadedOuter,
               "z2" :> LoadedInner(2, <<AdjacentZone("s", "bt2", 1)>>)}}

MpcTypes == ("bt1" :> Simple(1, 50)) @@ ("bt2" :> Layered(<<Layer("m1", 1)>>))

\* Documents that vary the zones and their adjacent zones.
AdjacentDocuments ==
    {Document(z, b, "m1" :> Brick, MpcTypes) :
        z \in MpcZoneDocs,
        b \in {<<>>,
               <<LoadedBoundary("bt1", <<"z1", "z1/s">>, 2, <<SubBoundary("bt2", 1)>>)>>,
               <<LoadedBoundary("bt2", <<"z2", "z1">>, 1, <<SubBoundary("bt1", 2)>>)>>}}

\* Documents that vary the catalogs.
CatalogDocuments ==
    {Document("z1" :> LoadedInner(1, <<AdjacentZone("s", "bt1", 1)>>),
              <<LoadedBoundary("bt1", <<"z1", "z1/s">>, 1, <<>>)>>, m,
              ("bt1" :> Layered(l)) @@ ("bt2" :> Layered(<<Layer("m2", 1)>>))) :
        m \in {"m1" :> Brick, ("m1" :> Brick) @@ ("m2" :> Brick)},
        l \in SeqsUpTo({Layer("m1", 1), Layer("m3", 1)}, MaxLayers)}

MpcInit ==
    /\ value \in AdjacentDocuments \cup CatalogDocuments
    /\ pc = "mpc_start"
    /\ converted_materials = <<>>
    /\ converted_boundary_types = <<>>
    /\ pending_types = {}
    /\ converted_zones = <<>>
    /\ converted_boundaries = <<>>
    /\ bi = 0
    /\ si = 0
    /\ remaining_area = 0
    /\ zone_pair = <<>>
    /\ pending_zones = {}
    /\ result = None
    /\ json = None
    /\ graph = [nodes |-> <<>>, edges |-> <<>>]
    /\ zone_indices = <<>>
    /\ marker_indices = <<>>
    /\ boundary_group_index = 0
    /\ network = None
    /\ built_before = None
    /\ InfluxIdle

MpcNext ==
    \/ MpcConvertCatalogs
    \/ MpcConvertZone
    \/ MpcConvertBoundary
    \/ MpcFinish

SpecAdjacent == MpcInit /\ [][MpcNext]_vars

-----------------------------------------------------------------------------
(* Adjacent zones *)

ListedAdjacent(zone_name) ==
    IF value.zones[zone_name].kind = "Inner"
    THEN value.zones[zone_name].adjacent_zones ELSE <<>>

\* Number of adjacent zones the zone entries of the set S list.
RECURSIVE AdjacentCount(_)
AdjacentCount(S) ==
    IF S = {} THEN 0
    ELSE LET z == CHOOSE z \in S : TRUE IN
         Len(ListedAdjacent(z)) + AdjacentCount(S \ {z})

\* C10: in a Model loaded from zone entries that list adjacent zones, every
\* declared zone is present with its own volume (or as outer zone), and every
\* listed adjacent zone j of a zone z stands as a zone of volume 0 under the
\* name "z/suffix" and as exactly one Boundary, of the same shape as any other,
\* with the listed boundary type and area, whose first zone is the zone z and
\* whose second zone is the zone made for j (the one registered under
\* "z/suffix", unless a later entry of the list has the same suffix).  These
\* boundaries precede those of the Boundary entries, which are all there too.
C10_AdjacentZonesExpanded ==
    Loaded =>
        LET zones == Res.val.zones
            out == Res.val.boundaries
            n == AdjacentCount(DeclaredZones)
        IN /\ Len(out) = n + Offset(Len(value.boundaries) + 1)
           /\ \A zone_name \in DeclaredZones :
               LET zone == value.zones[zone_name]
                   adj == ListedAdjacent(zone_name)
               IN /\ zone_name \in DOMAIN zones
                  /\ zones[zone_name].zone =
                         IF zone.kind = "Inner"
                         THEN [kind |-> "Inner", volume |-> zone.volume]
                         ELSE [kind |-> "Outer"]
                  /\ \A j \in DOMAIN adj :
                         LET key == zone_name \o "/" \o adj[j].suffix
                             made == {x \in 1..n : out[x].zones[2].id = <<zone_name, j>>}
                         IN /\ key \in DOMAIN zones
                            /\ zones[key].zone = [kind |-> "Inner", volume |-> 0]
                            /\ Cardinality(made) = 1
                            /\ \A x \in made :
                                   /\ DOMAIN out[x] = {"boundary_type", "zones", "area"}
                                   /\ out[x].boundary_type.name = adj[j].boundary_type
                                   /\ out[x].area = adj[j].area
                                   /\ out[x].zones[1] = zones[zone_name]
                                   /\ out[x].zones[2].zone = [kind |-> "Inner", volume |-> 0]
                                   /\ (\A m \in DOMAIN adj : m > j => adj[m].suffix # adj[j].suffix)
                                          => out[x].zones[2] = zones[key]

C10_Witness ==
    /\ Loaded
    /\ Len(ListedAdjacent("z1")) = 2
    /\ ListedAdjacent("z1")[1].suffix # ListedAdjacent("z1")[2].suffix
    /\ "z2" \in DeclaredZones
    /\ Len(ListedAdjacent("z2")) = 1
    /\ Cardinality(DOMAIN Res.val.zones) = 5
    /\ Len(Res.val.boundaries) = 5


-----------------------------------------------------------------------------
(* f64 *)

\* An f64 is an exact fraction num/den in lowest terms with den >= 0; den = 0
\* is an infinity (num = 1 or -1) or NaN (num = 0).  Rounding is not modelled.
RECURSIVE Gcd(_, _)
Gcd(a, b) == IF b = 0 THEN a ELSE Gcd(b, a % b)

Abs(x) == IF x < 0 THEN -x ELSE x

f64(n, d) ==
    IF d = 0 THEN [num |-> IF n > 0 THEN 1 ELSE IF n < 0 THEN -1 ELSE 0, den |-> 0]
    ELSE LET g == Gcd(Abs(n), Abs(d))
             s == IF d < 0 THEN -1 ELSE 1
         IN [num |-> s * (n \div g), den |-> s * (d \div g)]

Real(n) == f64(n, 1)
INFINITY == f64(1, 0)
NAN == f64(0, 0)

is_finite(x) == x.den # 0

Add(x, y) ==
    IF x.den = 0 /\ y.den = 0 THEN (IF x.num = y.num THEN x ELSE NAN)
    ELSE IF x.den = 0 THEN x
    ELSE IF y.den = 0 THEN y
    ELSE LET g == Gcd(x.den, y.den) IN
         f64(x.num * (y.den \div g) + y.num * (x.den \div g), (x.den \div g) * y.den)

Mul(x, y) ==
    LET g1 == Gcd(Abs(x.num), y.den)
        g2 == Gcd(Abs(y.num), x.den)
    IN IF g1 = 0 \/ g2 = 0 THEN f64(x.num * y.num, x.den * y.den)
       ELSE f64((x.num \div g1) * (y.num \div g2), (x.den \div g2) * (y.den \div g1))

recip(x) == f64(x.den, x.num)

Div(x, y) == Mul(x, recip(y))

RECURSIVE SumF64(_)
SumF64(s) == IF s = <<>> THEN Real(0) ELSE Add(s[1], SumF64(Tail(s)))

\* The square root of a perfect square.
Sqrt(n) == CHOOSE r \in 0..n : r * r = n

-----------------------------------------------------------------------------
(* Quantities of the Model, src/src/model.rs *)

thermal_conductivity(material) == f64(material.thermal_conductivity, 1000)
specific_heat_capacity(material) == Real(material.specific_heat_capacity)
density(material) == f64(material.density, 1000)

\* Mutant of zone_heat_capacity: a zone without volume has no heat capacity.
zone_heat_capacity_outer_zero(zone, content) ==
    IF zone.volume # None
    THEN Mul(Mul(Real(zone.volume[1]), density(content)), specific_heat_capacity(content))
    ELSE Real(0)

\* Zone::heat_capacity
zone_heat_capacity(zone, content) ==
    IF zone.volume # None
    THEN Mul(Mul(Real(zone.volume[1]), density(content)), specific_heat_capacity(content))
    ELSE INFINITY

\* BoundaryLayer::heat_capacity
layer_heat_capacity(layer, area) ==
    LET volume == Mul(area, Real(layer.thickness))
        material_mass == Mul(volume, density(layer.material))
    IN Mul(material_mass, specific_heat_capacity(layer.material))

\* BoundaryLayer::conductance
layer_conductance(layer, area) ==
    Div(Mul(thermal_conductivity(layer.material), area), Real(layer.thickness))

-----------------------------------------------------------------------------
(* RcNetwork::from(&Model), src/src/rc_network.rs *)

Node(zone_name, marker, heat_capacity, group) ==
    [zone_name |-> zone_name, marker |-> marker, heat_capacity |-> heat_capacity,
     boundary_group_index |-> group]

Edge(conductance) == [conductance |-> conductance]

\* petgraph: a NodeIndex is the number of nodes added before, node i is nodes[i + 1].
add_node(g, weight) == [g EXCEPT !.nodes = Append(@, weight)]
\* Mutant of add_edge: an edge between two nodes that are already joined
\* replaces the one that is there (UnGraph::update_edge).
add_edge_update(g, a, b, weight) ==
    LET joined == {e \in DOMAIN g.edges :
                      {g.edges[e].source, g.edges[e].target} = {a, b}}
    IN IF joined = {}
       THEN [g EXCEPT !.edges = Append(@, [source |-> a, target |-> b, weight |-> weight])]
       ELSE [g EXCEPT !.edges[CHOOSE e \in joined : TRUE].weight = weight]

add_edge(g, a, b, weight) ==
    [g EXCEPT !.edges = Append(@, [source |-> a, target |-> b, weight |-> weight])]
node_count(g) == Len(g.nodes)
edge_count(g) == Len(g.edges)
node_weight(g, i) == g.nodes[i + 1]

\* 12.12 - 1.16 * wind_speed + 11.6 * wind_speed.sqrt(), wind_speed in m/s
air_convection_conductance(wind_speed) ==
    Add(Add(f64(1212, 100), f64(-116 * wind_speed, 100)),
        f64(1160 * Sqrt(wind_speed), 100))

\* Mutant of reciprocal_sum: the values are added as if connected in parallel.
reciprocal_sum_parallel(values) == SumF64(values)

\* reciprocal_sum!(head, tail...)
reciprocal_sum(values) == recip(SumF64([i \in DOMAIN values |-> recip(values[i])]))

\* Mutant of boundary_node_marker: zone name and marker change places.
boundary_node_marker_swapped(zone1_name, marker) ==
    IF marker = None THEN None ELSE Some(<<marker[1], zone1_name>>)

\* marker.as_ref().map(|marker| (self.zone1_name.into(), marker.clone()))
boundary_node_marker(zone1_name, marker) ==
    IF marker = None THEN None ELSE Some(<<zone1_name, marker[1]>>)

\* Mutant of multimap_insert: a key keeps its last value only.
multimap_insert_overwrite(m, k, v) ==
    (k :> <<v>>) @@ m

\* MultiMap::insert
multimap_insert(m, k, v) ==
    IF k \in DOMAIN m THEN [m EXCEPT ![k] = Append(@, v)] ELSE (k :> <<v>>) @@ m

\* Mutant of add_boundary_node: a node that carries a marker has no heat
\* capacity.
add_boundary_node_marker_massless(self, heat_capacity, prev_node, thermal_conductance, marker, net) ==
    LET tag == boundary_node_marker(self.zone1_name, marker)
        node == node_count(net.graph)
        with_node == add_node(net.graph,
                              Node(None, tag,
                                   IF tag # None THEN Real(0) ELSE heat_capacity,
                                   Some(self.group_index)))
    IN [node |-> node,
        graph |-> add_edge(with_node, prev_node, node, Edge(thermal_conductance)),
        marker_indices |-> IF tag # None
                           THEN multimap_insert(net.marker_indices, tag[1], node)
                           ELSE net.marker_indices]

\* LayeredBoundaryBuilder::add_boundary_node; net holds the graph and the
\* marker index, the result also the new node.
add_boundary_node(self, heat_capacity, prev_node, thermal_conductance, marker, net) ==
    LET tag == boundary_node_marker(self.zone1_name, marker)
        node == node_count(net.graph)
        with_node == add_node(net.graph,
                              Node(None, tag, heat_capacity, Some(self.group_index)))
    IN [node |-> node,
        graph |-> add_edge(with_node, prev_node, node, Edge(thermal_conductance)),
        marker_indices |-> IF tag # None
                           THEN multimap_insert(net.marker_indices, tag[1], node)
                           ELSE net.marker_indices]

\* Mutant of add_window_nodes: a node between two layers gets the whole heat
\* capacity of the layer before it.
RECURSIVE add_window_nodes_upstream_capacity(_, _, _)
add_window_nodes_upstream_capacity(self, i, current) ==
    IF i >= Len(self.layers) THEN current
    ELSE add_window_nodes_upstream_capacity(self, i + 1,
             add_boundary_node(self, layer_heat_capacity(self.layers[i], self.area),
                               current.node, layer_conductance(self.layers[i], self.area),
                               self.layers[i].following_marker, current))

\* Mutant of add_window_nodes: the edge carries the conductance of the layer
\* after the node.
RECURSIVE add_window_nodes_downstream(_, _, _)
add_window_nodes_downstream(self, i, current) ==
    IF i >= Len(self.layers) THEN current
    ELSE LET layer1 == self.layers[i]
             layer2 == self.layers[i + 1]
         IN add_window_nodes_downstream(self, i + 1,
                add_boundary_node(self,
                    Div(Add(layer_heat_capacity(layer1, self.area),
                            layer_heat_capacity(layer2, self.area)), Real(2)),
                    current.node, layer_conductance(layer2, self.area),
                    layer1.following_marker, current))

\* for (layer1, layer2) in self.layers.iter().tuple_windows(): i is the
\* position of layer1.
RECURSIVE add_window_nodes(_, _, _)
add_window_nodes(self, i, current) ==
    IF i >= Len(self.layers) THEN current
    ELSE LET layer1 == self.layers[i]
             layer2 == self.layers[i + 1]
         IN add_window_nodes(self, i + 1,
                add_boundary_node(self,
                    Div(Add(layer_heat_capacity(layer1, self.area),
                            layer_heat_capacity(layer2, self.area)), Real(2)),
                    current.node, layer_conductance(layer1, self.area),
                    layer1.following_marker, current))

\* Mutant of add_layered_boundary_nodes: the last node is not connected to the
\* second zone.
add_layered_boundary_nodes_open(self, net) ==
    IF self.layers = <<>> THEN Panic
    ELSE LET first == add_boundary_node(self,
                          Div(layer_heat_capacity(Head(self.layers), self.area), Real(2)),
                          self.zone1_node, self.convection_conductance,
                          self.initial_marker, net)
             inner == add_window_nodes(self, 1, first)
             last_layer == self.layers[Len(self.layers)]
             last == add_boundary_node(self,
                          Div(layer_heat_capacity(last_layer, self.area), Real(2)),
                          inner.node, layer_conductance(last_layer, self.area),
                          last_layer.following_marker, inner)
         IN Ok([graph |-> last.graph, marker_indices |-> last.marker_indices])

\* LayeredBoundaryBuilder::add_layered_boundary_nodes; first() and last() of
\* an empty layer list are None and unwrap() panics.
add_layered_boundary_nodes(self, net) ==
    IF self.layers = <<>> THEN Panic
    ELSE LET first == add_boundary_node(self,
                          Div(layer_heat_capacity(Head(self.layers), self.area), Real(2)),
                          self.zone1_node, self.convection_conductance,
                          self.initial_marker, net)
             inner == add_window_nodes(self, 1, first)
             last_layer == self.layers[Len(self.layers)]
             last == add_boundary_node(self,
                          Div(layer_heat_capacity(last_layer, self.area), Real(2)),
                          inner.node, layer_conductance(last_layer, self.area),
                          last_layer.following_marker, inner)
         IN Ok([graph |-> add_edge(last.graph, last.node, self.zone2_node,
                                   Edge(self.convection_conductance)),
                marker_indices |-> last.marker_indices])

\* The edge of a simple boundary.
simple_boundary_edge(u, area, convection_conductance) ==
    Edge(reciprocal_sum(<<convection_conductance, Mul(Real(u), area),
                          convection_conductance>>))

\* Mutant of next_group_index: the counter stays where it is.
next_group_index_same(index) == index

\* boundary_group_index += 1
next_group_index(index) == index + 1

\* zone_indices[&name]: the Index of a HashMap panics on a missing key.
index_of(h, key) == IF key \in DOMAIN h THEN Ok(h[key]) ELSE Panic

\* The Model that from_json returned.
model == result[1].val

RcNetwork(g, zones, markers) ==
    [graph |-> g, zone_indices |-> zones, marker_indices |-> markers]

\* RcNetwork::from panics: nothing is returned.
Abort ==
    /\ network' = Some(Panic)
    /\ pc' = "network_done"

loader_vars == <<value, converted_materials, converted_boundary_types, pending_types,
                 converted_zones, converted_boundaries, si, remaining_area, zone_pair,
                 result, json>>

\* let mut graph = UnGraph::default(); model.zones.iter()
BeginNetwork ==
    /\ pc = "done"
    /\ result[1].ok
    /\ graph' = [nodes |-> <<>>, edges |-> <<>>]
    /\ zone_indices' = <<>>
    /\ pending_zones' = DOMAIN model.zones
    /\ pc' = "zone_nodes"
    /\ UNCHANGED <<loader_vars, influx_vars, built_before, bi, marker_indices, boundary_group_index, network>>

\* One item of model.zones.iter().map(...): a HashMap yields its entries in an
\* unspecified order.
\* The same Model is iterated: a HashMap that was not modified yields its
\* entries in the order in which it yielded them before.
AddZoneNode ==
    /\ pc = "zone_nodes"
    /\ \E name \in pending_zones :
         /\ IF built_before = None THEN TRUE
            ELSE built_before[1].val.zone_indices[name] = node_count(graph)
         /\ graph' = add_node(graph,
                              Node(Some(name), None,
                                   zone_heat_capacity(model.zones[name], model.air), None))
         /\ zone_indices' = (name :> node_count(graph)) @@ zone_indices
         /\ pending_zones' = pending_zones \ {name}
    /\ UNCHANGED <<loader_vars, influx_vars, built_before, pc, bi, marker_indices, boundary_group_index, network>>

\* Mutant of BeginBoundaries: the MultiMap of the markers outlives the call
\* (a static instead of a local), so a later call finds the earlier entries.
BeginBoundaries_markers_kept ==
    /\ pc = "zone_nodes"
    /\ pending_zones = {}
    /\ marker_indices' = marker_indices
    /\ boundary_group_index' = 0
    /\ bi' = 1
    /\ pc' = "network_boundaries"
    /\ UNCHANGED <<loader_vars, influx_vars, built_before, pending_zones, graph, zone_indices, network>>

\* collect() is complete; MultiMap::new(); let mut boundary_group_index = 0
BeginBoundaries ==
    /\ pc = "zone_nodes"
    /\ pending_zones = {}
    /\ marker_indices' = <<>>
    /\ boundary_group_index' = 0
    /\ bi' = 1
    /\ pc' = "network_boundaries"
    /\ UNCHANGED <<loader_vars, influx_vars, built_before, pending_zones, graph, zone_indices, network>>

\* air_convection_conductance(Velocity::new::<meter_per_second>(0.0)) * boundary.area
convection_conductance_of(area) == Mul(air_convection_conductance(0), area)

\* One iteration of "for boundary in model.boundaries.iter()", the arm
\* BoundaryType::Layered of the match.
AddLayeredBoundary ==
    /\ pc = "network_boundaries"
    /\ bi <= Len(model.boundaries)
    /\ model.boundaries[bi].boundary_type.kind = "Layered"
    /\ LET boundary == model.boundaries[bi]
           z1 == index_of(zone_indices, boundary.zones[1].name)
           z2 == index_of(zone_indices, boundary.zones[2].name)
       IN IF ~z1.ok \/ ~z2.ok
          THEN Abort /\ UNCHANGED <<graph, marker_indices, boundary_group_index, bi>>
          ELSE LET builder == [zone1_node |-> z1.val, zone2_node |-> z2.val,
                               zone1_name |-> boundary.zones[1].name,
                               layers |-> boundary.boundary_type.layers,
                               initial_marker |-> boundary.boundary_type.initial_marker,
                               area |-> Real(boundary.area),
                               convection_conductance |->
                                   convection_conductance_of(Real(boundary.area)),
                               group_index |-> boundary_group_index]
                    built == add_layered_boundary_nodes(
                                 builder, [graph |-> graph,
                                           marker_indices |-> marker_indices])
               IN IF ~built.ok
                  THEN Abort /\ UNCHANGED <<graph, marker_indices,
                                            boundary_group_index, bi>>
                  ELSE /\ graph' = built.val.graph
                       /\ marker_indices' = built.val.marker_indices
                       /\ boundary_group_index' = next_group_index(boundary_group_index)
                       /\ bi' = bi + 1
                       /\ UNCHANGED <<pc, network>>
    /\ UNCHANGED <<loader_vars, influx_vars, built_before, pending_zones, zone_indices>>

\* One iteration of "for boundary in model.boundaries.iter()", the arm
\* BoundaryType::Simple of the match.
AddSimpleBoundary ==
    /\ pc = "network_boundaries"
    /\ bi <= Len(model.boundaries)
    /\ model.boundaries[bi].boundary_type.kind = "Simple"
    /\ LET boundary == model.boundaries[bi]
           z1 == index_of(zone_indices, boundary.zones[1].name)
           z2 == index_of(zone_indices, boundary.zones[2].name)
       IN IF ~z1.ok \/ ~z2.ok
          THEN Abort /\ UNCHANGED <<graph, bi>>
          ELSE /\ graph' = add_edge(graph, z1.val, z2.val,
                                    simple_boundary_edge(
                                        boundary.boundary_type.u, Real(boundary.area),
                                        convection_conductance_of(Real(boundary.area))))
               /\ bi' = bi + 1
               /\ UNCHANGED <<pc, network>>
    /\ UNCHANGED <<loader_vars, influx_vars, built_before, pending_zones, zone_indices, marker_indices,
                   boundary_group_index>>

FinishNetwork ==
    /\ pc = "network_boundaries"
    /\ bi > Len(model.boundaries)
    /\ network' = Some(Ok(RcNetwork(graph, zone_indices, marker_indices)))
    /\ pc' = "network_done"
    /\ UNCHANGED <<loader_vars, influx_vars, built_before, pending_zones, bi, graph, zone_indices, marker_indices,
                   boundary_group_index>>

-----------------------------------------------------------------------------
(* Model::from_json: json5::from_str, then try_from *)

\* JSON values.  Of a document only the zone entries are kept as JSON; its
\* other parts are taken to be well typed.
JsonNull == [type |-> "null"]
JsonNumber(v) == [type |-> "number", v |-> v]
JsonObject(fields) == [type |-> "object", fields |-> fields]

MsgMissingField == "missing field {}"
MsgInvalidType == "invalid type: {}, expected {}"

\* Mutant of zone_deserialize: an entry without a number as volume is taken
\* with the volume 0.
zone_deserialize_lenient(entry) ==
    IF entry.type # "object" THEN Ok([volume |-> 0])
    ELSE IF "volume" \notin DOMAIN entry.fields THEN Ok([volume |-> 0])
    ELSE IF entry.fields.volume.type # "number" THEN Ok([volume |-> 0])
    ELSE Ok([volume |-> entry.fields.volume.v])

\* #[derive(Deserialize)] struct Zone { volume: Volume }: the field is neither
\* an Option nor has a default, and unknown fields are ignored.
zone_deserialize(entry) ==
    IF entry.type # "object" THEN Err(MsgInvalidType, <<entry.type, "struct Zone">>)
    ELSE IF "volume" \notin DOMAIN entry.fields THEN Err(MsgMissingField, <<"volume">>)
    ELSE IF entry.fields.volume.type # "number"
         THEN Err(MsgInvalidType, <<entry.fields.volume.type, "f64">>)
    ELSE Ok([volume |-> entry.fields.volume.v])

\* let loaded: as_loaded::Model = json5::from_str(json)?;
Deserialize ==
    /\ pc = "from_json"
    /\ LET document == json[1]
           zones == [name \in DOMAIN document.zones |->
                        zone_deserialize(document.zones[name])]
           bad == {name \in DOMAIN zones : ~zones[name].ok}
       IN IF bad # {}
          THEN (\E name \in bad : Return(zones[name])) /\ value' = value
          ELSE /\ value' = [document EXCEPT
                               !.zones = [name \in DOMAIN zones |-> zones[name].val]]
               /\ pc' = "reserved"
               /\ result' = result
    /\ UNCHANGED <<converted_materials, converted_boundary_types, pending_types,
                   converted_zones, converted_boundaries, bi, si, remaining_area,
                   zone_pair, pending_zones, network_vars, influx_vars>>

-----------------------------------------------------------------------------
(* The explored JSON documents *)

\* The air of the test node_access.
TestAir == [thermal_conductivity |-> 1000, specific_heat_capacity |-> 1,
            density |-> 1000]

JsonZone(volume) == JsonObject("volume" :> JsonNumber(volume))

JsonZoneEntries ==
    {JsonNull, JsonObject("note" :> JsonNumber(1)), JsonObject("volume" :> JsonNull)}
        \cup {JsonZone(v) : v \in 0..MaxVolume}

JsonZoneDocs == UNION {[S -> JsonZoneEntries] : S \in {{}, {"z1"}, {"z1", "z2"}}}

OneZone == "z1" :> JsonZone(1)

NetworkTypes ==
    ("bt1" :> Simple(1, 50))
    @@ ("bt2" :> Layered(<<Marker("x"), Layer("m1", 1), Marker("y"), Layer("air", 2),
                           Marker("x")>>))
    @@ ("bt3" :> Layered(<<Layer("m1", 2)>>))

\* Documents that vary the zone entries and the air.
JsonZoneDocuments ==
    {Document(z, b, m, TwoTypes) :
        z \in JsonZoneDocs,
        m \in {[name \in S |-> IF name = "air" THEN TestAir ELSE Brick] :
                  S \in {{"m1"}, {"m1", "air"}}},
        b \in {<<>>, <<LoadedBoundary("bt1", <<"z1", "outside">>, 1, <<>>)>>}}

\* Documents that vary the layers and the markers of a boundary type.
JsonTypeDocuments ==
    {Document(OneZone, <<LoadedBoundary("bt1", <<"z1", "outside">>, 2, <<>>)>>,
              "m1" :> Brick, "bt1" :> Layered(l)) :
        l \in SeqsUpTo(LayerEntries, MaxLayers)}

NetworkEntries ==
    {LoadedBoundary("bt1", <<"z1", "outside">>, 2, <<>>),
     LoadedBoundary("bt2", <<"z1", "ground">>, 1, <<>>),
     LoadedBoundary("bt2", <<"ground", "z1">>, 2, <<SubBoundary("bt1", 1)>>),
     LoadedBoundary("bt3", <<"z1", "z1">>, 1, <<>>),
     LoadedBoundary("bt1", <<"outside", "ground">>, 1, <<SubBoundary("bt3", 1)>>),
     LoadedBoundary("bt2", <<"z1", "outside">>, MaxArea, <<>>)}

\* Documents of several Boundary entries.
JsonBoundaryDocuments ==
    {Document(OneZone, b, "m1" :> Brick, NetworkTypes) :
        b \in SeqsUpTo(NetworkEntries, MaxBoundaries)}

JsonDocuments == JsonZoneDocuments \cup JsonTypeDocuments \cup JsonBoundaryDocuments

NetInit ==
    /\ json \in {Some(d) : d \in JsonDocuments}
    /\ value = None
    /\ pc = "from_json"
    /\ converted_materials = <<>>
    /\ converted_boundary_types = <<>>
    /\ pending_types = {}
    /\ converted_zones = <<>>
    /\ converted_boundaries = <<>>
    /\ bi = 0
    /\ si = 0
    /\ remaining_area = 0
    /\ zone_pair = <<>>
    /\ pending_zones = {}
    /\ result = None
    /\ graph = [nodes |-> <<>>, edges |-> <<>>]
    /\ zone_indices = <<>>
    /\ marker_indices = <<>>
    /\ boundary_group_index = 0
    /\ network = None
    /\ built_before = None
    /\ InfluxIdle

NetNext ==
    \/ Deserialize
    \/ Next
    \/ BeginNetwork
    \/ AddZoneNode
    \/ BeginBoundaries
    \/ AddLayeredBoundary
    \/ AddSimpleBoundary
    \/ FinishNetwork

SpecNetwork == NetInit /\ [][NetNext]_vars

\* RcNetwork::from(&model) is called once more with the Model of the first
\* call: the first RcNetwork is kept by the caller, and the locals of the
\* first call are whatever that call left behind.
BuildAgain ==
    /\ pc = "network_done"
    /\ network[1].ok
    /\ built_before = None
    /\ built_before' = network
    /\ network' = None
    /\ pc' = "done"
    /\ UNCHANGED <<loader_vars, influx_vars, bi, pending_zones, graph, zone_indices,
                   marker_indices, boundary_group_index>>

RebuildNext ==
    \/ NetNext
    \/ BuildAgain

SpecRebuild == NetInit /\ [][RebuildNext]_vars

-----------------------------------------------------------------------------
(* Vocabulary of the properties of from_json and of the network *)

JsonZones == json[1].zones

\* The zone entry is an object whose volume is a number.
HasVolume(entry) ==
    /\ entry.type = "object"
    /\ "volume" \in DOMAIN entry.fields
    /\ entry.fields.volume.type = "number"

Returned == result # None
ModelLoaded == Returned /\ result[1].ok
ParseFailed ==
    Returned /\ ~result[1].ok /\ result[1].msg \in {MsgMissingField, MsgInvalidType}

Built == pc = "network_done" /\ network[1].ok
Net == network[1].val

\* The node of the zone of that name.
ZoneNode(name) == node_weight(graph, zone_indices[name])

-----------------------------------------------------------------------------
-----------------------------------------------------------------------------
(* Where the boundaries of the Model are in the graph *)

Boundaries == model.boundaries
IsLayered(i) == Boundaries[i].boundary_type.kind = "Layered"
IsSimple(i) == Boundaries[i].boundary_type.kind = "Simple"
LayersOfBoundary(i) == Boundaries[i].boundary_type.layers
LayerCount(i) == Len(LayersOfBoundary(i))

\* The zone nodes are complete and no boundary has failed.
ZonesIndexed == pc = "network_boundaries" \/ Built

\* The boundaries the loop has gone through.
Processed == IF pc = "network_boundaries" THEN 1..(bi - 1) ELSE DOMAIN Boundaries

ZoneCount == Cardinality(DOMAIN model.zones)

\* Nodes and edges in the graph before boundary i is processed, by the counts
\* a layered boundary of n layers (n + 1 nodes, n + 2 edges) and a simple
\* boundary (no node, 1 edge) should add.
NodeOffset(i) ==
    ZoneCount + SumSeq([j \in 1..(i - 1) |-> IF IsLayered(j) THEN LayerCount(j) + 1 ELSE 0])
EdgeOffset(i) ==
    SumSeq([j \in 1..(i - 1) |-> IF IsLayered(j) THEN LayerCount(j) + 2 ELSE 1])

\* The k-th node (k = 0 for the first) and the k-th edge (k = 1 for the first)
\* of boundary i.
BoundaryNodeIndex(i, k) == NodeOffset(i) + k
BoundaryNode(i, k) == node_weight(graph, BoundaryNodeIndex(i, k))
BoundaryEdge(i, k) == graph.edges[EdgeOffset(i) + k]

ZoneIndexOf(i, side) == zone_indices[Boundaries[i].zones[side].name]

\* The film conductance of a boundary: 12.12 W/(m2 K) times its area.
Film(i) == f64(1212 * Boundaries[i].area, 100)

\* Boundary i is the one the loop has processed last.
LastProcessed(i) == i \in Processed /\ i + 1 \notin Processed

Degree(n) ==
    Cardinality({e \in DOMAIN graph.edges :
                    graph.edges[e].source = n \/ graph.edges[e].target = n})

-----------------------------------------------------------------------------
\* C12: while the boundaries are processed and in the built network, the graph
\* has one node per zone and n + 1 nodes per layered boundary of n layers, and
\* one edge per simple boundary and n + 2 edges per layered boundary of n
\* layers, counted over the boundaries processed so far.
C12_NodeAndEdgeCounts ==
    ZonesIndexed =>
        LET next == IF pc = "network_boundaries" THEN bi ELSE Len(Boundaries) + 1 IN
        /\ node_count(graph) = NodeOffset(next)
        /\ edge_count(graph) = EdgeOffset(next)
        /\ Built => /\ Net.graph = graph
                    /\ node_count(Net.graph) = NodeOffset(Len(Boundaries) + 1)
                    /\ edge_count(Net.graph) = EdgeOffset(Len(Boundaries) + 1)

C12_Witness ==
    /\ Built
    /\ \E i, j \in DOMAIN Boundaries :
          /\ IsSimple(i)
          /\ IsLayered(j) /\ LayerCount(j) = 2
    /\ node_count(Net.graph) = 6
    /\ edge_count(Net.graph) = 5

-----------------------------------------------------------------------------
\* C13: in the built network the heat capacities of the nodes with a finite
\* heat capacity sum to the heat capacities of the zones that have a volume
\* plus the heat capacities, at the area of the boundary, of all layers of all
\* layered boundaries.
RECURSIVE ZoneCapacitySum(_)
ZoneCapacitySum(names) ==
    IF names = {} THEN Real(0)
    ELSE LET name == CHOOSE n \in names : TRUE
             zone == model.zones[name]
         IN Add(IF zone.volume = None THEN Real(0)
                ELSE f64(zone.volume[1] * model.air.density
                             * model.air.specific_heat_capacity, 1000),
                ZoneCapacitySum(names \ {name}))

LayerCapacitySum(i) ==
    SumF64([k \in DOMAIN LayersOfBoundary(i) |->
               LET layer == LayersOfBoundary(i)[k] IN
               f64(Boundaries[i].area * layer.thickness * layer.material.density
                       * layer.material.specific_heat_capacity, 1000)])

ExpectedCapacity ==
    Add(ZoneCapacitySum(DOMAIN model.zones),
        SumF64([i \in DOMAIN Boundaries |->
                   IF IsLayered(i) THEN LayerCapacitySum(i) ELSE Real(0)]))

ActualCapacity ==
    SumF64([n \in DOMAIN Net.graph.nodes |->
               IF is_finite(Net.graph.nodes[n].heat_capacity)
               THEN Net.graph.nodes[n].heat_capacity ELSE Real(0)])

C13_HeatCapacityConserved == Built => ActualCapacity = ExpectedCapacity

C13_Witness ==
    /\ Built
    /\ \E i \in DOMAIN Boundaries :
          /\ IsLayered(i) /\ LayerCount(i) = 2 /\ Boundaries[i].area = 2
          /\ LayerCapacitySum(i) = f64(2 * 6 * 1000 + 2 * 2 * 1199 * 1012, 1000)
    /\ is_finite(ActualCapacity)
    /\ ActualCapacity # ZoneCapacitySum(DOMAIN model.zones)

-----------------------------------------------------------------------------
\* C14: once the zone nodes are made, the zone-name index has exactly the
\* zone names of the Model, maps them to distinct nodes, and these are all the
\* nodes with a zone name; the node of a zone has that zone's name, no marker,
\* no group, and as heat capacity volume x density x specific heat capacity of
\* the Model's air if the zone has a volume (0 for the volume 0) and infinity
\* if it has none, whatever the air.
C14_ZoneNodes ==
    ZonesIndexed =>
        /\ DOMAIN zone_indices = DOMAIN model.zones
        /\ \A a, b \in DOMAIN zone_indices :
               zone_indices[a] = zone_indices[b] => a = b
        /\ {zone_indices[name] : name \in DOMAIN zone_indices}
               = {n \in 0..(node_count(graph) - 1) : node_weight(graph, n).zone_name # None}
        /\ \A name \in DOMAIN zone_indices :
               LET node == ZoneNode(name)
                   zone == model.zones[name]
               IN /\ node.zone_name = Some(name)
                  /\ node.marker = None
                  /\ node.boundary_group_index = None
                  /\ node.heat_capacity =
                         IF zone.volume = None THEN INFINITY
                         ELSE f64(zone.volume[1] * model.air.density
                                      * model.air.specific_heat_capacity, 1000)
                  /\ (zone.volume = Some(0)) => node.heat_capacity = Real(0)

C14_Witness ==
    /\ Built
    /\ DOMAIN zone_indices = {"z1", "z2", "outside", "ground"}
    /\ model.air = [name |-> "air", thermal_conductivity |-> 1000,
                    specific_heat_capacity |-> 1, density |-> 1000]
    /\ ZoneNode("z1").heat_capacity = Real(0)
    /\ ZoneNode("z2").heat_capacity = Real(2)
    /\ ZoneNode("ground").heat_capacity = INFINITY

-----------------------------------------------------------------------------
\* C15: a processed simple boundary of area a and U value u has added exactly
\* one edge and no node; the edge joins the nodes of its two zones and its
\* conductance is 1 / (1/film + 1/(u a) + 1/film) with film = 12.12 a on both
\* sides, which is 12.12 u a / (2 u + 12.12), and 0 for the area 0.
C15_SimpleBoundaryEdge ==
    ZonesIndexed =>
        \A i \in Processed :
            IsSimple(i) =>
                LET u == Boundaries[i].boundary_type.u
                    a == Boundaries[i].area
                    edge == BoundaryEdge(i, 1)
                IN /\ LastProcessed(i) =>
                          /\ edge_count(graph) = EdgeOffset(i) + 1
                          /\ node_count(graph) = NodeOffset(i)
                   /\ edge.source = ZoneIndexOf(i, 1)
                   /\ edge.target = ZoneIndexOf(i, 2)
                   /\ edge.weight.conductance =
                          IF a = 0 THEN Real(0)
                          ELSE f64(1212 * u * a, 200 * u + 1212)

C15_Witness ==
    /\ Built
    /\ Len(Boundaries) = 1
    /\ IsSimple(1) /\ Boundaries[1].area = 2
    /\ edge_count(graph) = 1
    /\ graph.edges[1] = [source |-> zone_indices["z1"], target |-> zone_indices["outside"],
                         weight |-> [conductance |-> f64(606, 353)]]

-----------------------------------------------------------------------------
\* C16: a processed layered boundary of n layers between the zones A and B has
\* added the nodes N0 .. Nn and the edges A - N0, N0 - N1, ..., N(n-1) - Nn,
\* Nn - B in this order; the first and the last edge carry the film conductance,
\* the edge N(k-1) - Nk the conductance k x area / thickness of layer k, and
\* each of the new nodes is an end of exactly two edges of the graph.
C16_LayeredBoundaryPath ==
    ZonesIndexed =>
        \A i \in Processed :
            IsLayered(i) =>
                LET n == LayerCount(i) IN
                /\ n >= 1
                /\ LastProcessed(i) =>
                       /\ node_count(graph) = NodeOffset(i) + n + 1
                       /\ edge_count(graph) = EdgeOffset(i) + n + 2
                /\ BoundaryEdge(i, 1) =
                       [source |-> ZoneIndexOf(i, 1), target |-> BoundaryNodeIndex(i, 0),
                        weight |-> [conductance |-> Film(i)]]
                /\ \A k \in 1..n :
                       LET layer == LayersOfBoundary(i)[k] IN
                       BoundaryEdge(i, k + 1) =
                           [source |-> BoundaryNodeIndex(i, k - 1),
                            target |-> BoundaryNodeIndex(i, k),
                            weight |-> [conductance |->
                                f64(layer.material.thermal_conductivity * Boundaries[i].area,
                                    1000 * layer.thickness)]]
                /\ BoundaryEdge(i, n + 2) =
                       [source |-> BoundaryNodeIndex(i, n), target |-> ZoneIndexOf(i, 2),
                        weight |-> [conductance |-> Film(i)]]
                /\ \A k \in 0..n :
                       /\ BoundaryNode(i, k).zone_name = None
                       /\ Degree(BoundaryNodeIndex(i, k)) = 2

C16_Witness ==
    /\ Built
    /\ \E i \in DOMAIN Boundaries :
          /\ IsLayered(i) /\ LayerCount(i) = 2 /\ Boundaries[i].area = 2
          /\ Boundaries[i].zones[1].name = "z1"
          /\ Boundaries[i].zones[2].name = "outside"
          /\ BoundaryEdge(i, 1).weight.conductance = f64(2424, 100)
          /\ BoundaryEdge(i, 2).weight.conductance = Real(2)
          /\ BoundaryEdge(i, 3).weight.conductance = f64(26, 1000)
          /\ BoundaryEdge(i, 4).target = zone_indices["outside"]

-----------------------------------------------------------------------------
\* C17: of a processed layered boundary with the zones [A, B], the first node
\* is joined to A's node and carries the initial marker, the node made after
\* layer k carries the following marker of layer k, and the last node is
\* joined to B's node; a marker m is carried as the tag (name of A, m), on
\* every node of the boundary, and a node without marker has no tag.
TagOf(i, marker) ==
    IF marker = None THEN None ELSE Some(<<Boundaries[i].zones[1].name, marker[1]>>)

Joined(a, b) ==
    \E e \in DOMAIN graph.edges :
        \/ graph.edges[e].source = a /\ graph.edges[e].target = b
        \/ graph.edges[e].source = b /\ graph.edges[e].target = a

C17_MarkerTags ==
    ZonesIndexed =>
        \A i \in Processed :
            IsLayered(i) =>
                LET n == LayerCount(i) IN
                /\ BoundaryNode(i, 0).marker =
                       TagOf(i, Boundaries[i].boundary_type.initial_marker)
                /\ Joined(ZoneIndexOf(i, 1), BoundaryNodeIndex(i, 0))
                /\ \A k \in 1..n :
                       BoundaryNode(i, k).marker =
                           TagOf(i, LayersOfBoundary(i)[k].following_marker)
                /\ Joined(BoundaryNodeIndex(i, n), ZoneIndexOf(i, 2))

C17_Witness ==
    /\ Built
    /\ \E i \in DOMAIN Boundaries :
          /\ IsLayered(i) /\ LayerCount(i) = 2
          /\ Boundaries[i].zones[1].name = "ground"
          /\ Boundaries[i].zones[2].name = "z1"
          /\ BoundaryNode(i, 0).marker = Some(<<"ground", "x">>)
          /\ BoundaryNode(i, 1).marker = Some(<<"ground", "y">>)
          /\ BoundaryNode(i, 2).marker = Some(<<"ground", "x">>)
          /\ Joined(BoundaryNodeIndex(i, 2), zone_indices["z1"])
    /\ \E j \in DOMAIN Boundaries :
          /\ IsLayered(j) /\ LayerCount(j) = 1
          /\ BoundaryNode(j, 0).marker = None
          /\ BoundaryNode(j, 1).marker = None

-----------------------------------------------------------------------------
\* C18: the marker index has a key for exactly the tags that nodes carry, and
\* the list of a key holds exactly the nodes with that tag, each once, in the
\* order in which they were made, which is the order of their boundaries in
\* the Model; nodes of several boundaries with the same tag are all listed.
Tagged(key) ==
    {n \in 0..(node_count(graph) - 1) : node_weight(graph, n).marker = Some(key)}

C18_MarkerIndex ==
    ZonesIndexed =>
        /\ \A n \in 0..(node_count(graph) - 1) :
               node_weight(graph, n).marker # None =>
                   node_weight(graph, n).marker[1] \in DOMAIN marker_indices
        /\ \A key \in DOMAIN marker_indices :
               LET listed == marker_indices[key] IN
               /\ listed # <<>>
               /\ Range(listed) = Tagged(key)
               /\ \A a, b \in DOMAIN listed : a < b => listed[a] < listed[b]
        /\ Built => Net.marker_indices = marker_indices

C18_Witness ==
    /\ Built
    /\ <<"z1", "x">> \in DOMAIN marker_indices
    /\ LET listed == marker_indices[<<"z1", "x">>] IN
       /\ Len(listed) = 4
       /\ node_weight(graph, listed[1]).boundary_group_index = Some(0)
       /\ node_weight(graph, listed[2]).boundary_group_index = Some(0)
       /\ node_weight(graph, listed[3]).boundary_group_index = Some(1)
       /\ node_weight(graph, listed[4]).boundary_group_index = Some(1)

-----------------------------------------------------------------------------
\* C19: the nodes of a processed layered boundary all carry the same group
\* id, the number of layered boundaries before it in the Model: the ids are 0,
\* 1, 2, ... in the order of the Model over the boundaries that make nodes (a
\* simple boundary makes none and takes no id), no two boundaries share one,
\* and the zone nodes carry none.
LayeredBefore(i) == Cardinality({j \in 1..(i - 1) : IsLayered(j)})

C19_BoundaryGroups ==
    ZonesIndexed =>
        /\ \A i \in Processed :
               IsLayered(i) =>
                   \A k \in 0..LayerCount(i) :
                       BoundaryNode(i, k).boundary_group_index = Some(LayeredBefore(i))
        /\ \A i, j \in Processed :
               (IsLayered(i) /\ IsLayered(j) /\ i # j) =>
                   BoundaryNode(i, 0).boundary_group_index
                       # BoundaryNode(j, 0).boundary_group_index
        /\ \A i \in Processed :
               (IsLayered(i) /\ \A j \in 1..(i - 1) : ~IsLayered(j)) =>
                   BoundaryNode(i, 0).boundary_group_index = Some(0)
        /\ \A name \in DOMAIN zone_indices : ZoneNode(name).boundary_group_index = None
        /\ \A n \in 0..(node_count(graph) - 1) :
               node_weight(graph, n).boundary_group_index = None
                   <=> node_weight(graph, n).zone_name # None

C19_Witness ==
    /\ Built
    /\ Len(Boundaries) = 3
    /\ IsLayered(1) /\ IsSimple(2) /\ IsLayered(3)
    /\ BoundaryNode(1, 0).boundary_group_index = Some(0)
    /\ BoundaryNode(3, 0).boundary_group_index = Some(1)
    /\ BoundaryNode(3, LayerCount(3)).boundary_group_index = Some(1)

-----------------------------------------------------------------------------
\* C20: RcNetwork::from never panics on a Model that from_json returned: each
\* zone of the Model carries the name of its key, each boundary refers to two
\* zones of the Model, each layered boundary type has at least one layer, and
\* once the zone nodes are made both zones of every boundary are in the
\* zone-name index, under their own name.
C20_BuildCannotFail ==
    /\ network # None => network[1].ok
    /\ ModelLoaded =>
           /\ \A name \in DOMAIN model.zones : model.zones[name].name = name
           /\ \A i \in DOMAIN Boundaries :
                  /\ Boundaries[i].zones[1] = model.zones[Boundaries[i].zones[1].name]
                  /\ Boundaries[i].zones[2] = model.zones[Boundaries[i].zones[2].name]
                  /\ IsLayered(i) => LayerCount(i) >= 1
    /\ ZonesIndexed =>
           \A i \in DOMAIN Boundaries :
               \A side \in 1..2 :
                   LET name == Boundaries[i].zones[side].name IN
                   /\ name \in DOMAIN zone_indices
                   /\ ZoneNode(name).zone_name = Some(name)

C20_Witness ==
    /\ Built
    /\ Len(Boundaries) = 3
    /\ IsLayered(1) /\ LayerCount(1) = 1
    /\ Boundaries[1].zones[1].name = "z1"
    /\ Boundaries[1].zones[2].name = "z1"
    /\ IsLayered(2)
    /\ Boundaries[2].zones[1].name = "outside"
    /\ Boundaries[2].zones[2].name = "ground"
    /\ IsSimple(3) /\ Boundaries[3].area = 0
    /\ node_count(Net.graph) = 7

-----------------------------------------------------------------------------
\* The heat capacity of layer k of boundary i at the area of the boundary, in
\* thousandths: area x thickness x density x specific heat capacity.
LayerCapacity(i, k) ==
    LET layer == LayersOfBoundary(i)[k] IN
    Boundaries[i].area * layer.thickness * layer.material.density
        * layer.material.specific_heat_capacity

\* C22: of a processed layered boundary of n layers the first node has half
\* the heat capacity of layer 1, the node after layer k < n half the sum of the
\* heat capacities of the layers k and k + 1, and the last node half the heat
\* capacity of layer n; this is so whether or not the node carries a marker.
C22_LayerNodeCapacities ==
    ZonesIndexed =>
        \A i \in Processed :
            IsLayered(i) =>
                LET n == LayerCount(i) IN
                /\ BoundaryNode(i, 0).heat_capacity = f64(LayerCapacity(i, 1), 2000)
                /\ \A k \in 1..(n - 1) :
                       BoundaryNode(i, k).heat_capacity =
                           f64(LayerCapacity(i, k) + LayerCapacity(i, k + 1), 2000)
                /\ BoundaryNode(i, n).heat_capacity = f64(LayerCapacity(i, n), 2000)

C22_Witness ==
    /\ Built
    /\ \E i, j \in DOMAIN Boundaries :
          /\ IsLayered(i) /\ LayerCount(i) = 2 /\ Boundaries[i].area = 2
          /\ BoundaryNode(i, 0).marker # None
          /\ BoundaryNode(i, 0).heat_capacity = Real(6)
          /\ BoundaryNode(i, 1).marker # None
          /\ BoundaryNode(i, 1).heat_capacity = f64(2432776, 1000)
          /\ BoundaryNode(i, 2).heat_capacity = f64(2426776, 1000)
          /\ IsLayered(j) /\ LayerCount(j) = 1 /\ Boundaries[j].area = 1
          /\ BoundaryNode(j, 0).marker = None
          /\ BoundaryNode(j, 0).heat_capacity = Real(6)
          /\ BoundaryNode(j, 1).heat_capacity = Real(6)

-----------------------------------------------------------------------------
(* Markers of a converted layer list *)

\* The raw entries that the converted layers stand for: each layer, followed
\* by its following marker if it has one.
RECURSIVE RawLayers(_)
RawLayers(layers) ==
    IF layers = <<>> THEN <<>>
    ELSE LET l == Head(layers) IN
         <<Layer(l.material.name, l.thickness)>>
             \o (IF l.following_marker = None THEN <<>>
                 ELSE <<Marker(l.following_marker[1])>>)
             \o RawLayers(Tail(layers))

\* The raw layer list that a converted layered boundary type stands for.
RawOf(t) ==
    (IF t.initial_marker = None THEN <<>> ELSE <<Marker(t.initial_marker[1])>>)
        \o RawLayers(t.layers)

\* The positions of the non-marker entries of a raw layer list, in order.
RECURSIVE NonMarkers(_, _)
NonMarkers(layers, i) ==
    IF i > Len(layers) THEN <<>>
    ELSE (IF layers[i].kind = "Layer" THEN <<i>> ELSE <<>>) \o NonMarkers(layers, i + 1)

\* Converted type t is what the raw layer list stands for.
ConvertedAs(t, raw) ==
    LET at == NonMarkers(raw, 1) IN
    /\ t.kind = "Layered"
    /\ Len(t.layers) = Len(at)
    /\ \A k \in DOMAIN at :
           /\ t.layers[k].material.name = raw[at[k]].material
           /\ t.layers[k].thickness = raw[at[k]].thickness
           /\ t.layers[k].following_marker =
                  IF at[k] + 1 \in DOMAIN raw /\ raw[at[k] + 1].kind = "Marker"
                  THEN Some(raw[at[k] + 1].marker) ELSE None
    /\ t.initial_marker = IF raw[1].kind = "Marker" THEN Some(raw[1].marker) ELSE None
    /\ RawOf(t) = raw

\* C23: the conversion of a well-formed layer list whose materials exist gives
\* the non-marker entries in their order as layers, the first entry as
\* initial marker exactly when it is a marker, and every other marker as the
\* following marker of the layer right before it; a layer not followed by a
\* marker has none, and putting the markers back after their layers gives the
\* raw list again, so that no marker is lost or attached twice.  Every
\* boundary type the load has converted is of this form.
C23_MarkersAttached ==
    /\ \A name \in DeclaredTypes :
           (/\ value.boundary_types[name].kind = "Layered"
            /\ ~Malformed(LayersOf(name))
            /\ MaterialsOf(name) \subseteq KnownMaterials) =>
               LET r == boundary_type_convert(value.boundary_types[name], name,
                                              materials_with_air(value.materials))
               IN r.ok /\ r.val.name = name /\ ConvertedAs(r.val, LayersOf(name))
    /\ \A name \in DOMAIN converted_boundary_types :
           value.boundary_types[name].kind = "Layered" =>
               ConvertedAs(converted_boundary_types[name], LayersOf(name))

C23_Witness ==
    /\ Loaded
    /\ \E name \in DOMAIN converted_boundary_types :
           LET t == converted_boundary_types[name] IN
           /\ LayersOf(name) = <<Marker("x"), Layer("m1", 1), Marker("y")>>
           /\ t.initial_marker = Some("x")
           /\ Len(t.layers) = 1
           /\ t.layers[1].following_marker = Some("y")

-----------------------------------------------------------------------------
\* C24 as stated: the two zones of every boundary of a loaded Model are
\* distinct, and in the network no processed boundary has the node of the
\* same zone at both of its ends.
C24_Original ==
    /\ ModelLoaded =>
           \A i \in DOMAIN Boundaries :
               Boundaries[i].zones[1].name # Boundaries[i].zones[2].name
    /\ ZonesIndexed =>
           \A i \in Processed : ZoneIndexOf(i, 1) # ZoneIndexOf(i, 2)

-----------------------------------------------------------------------------
\* Some adjacent zone of some zone entry names a boundary type that the
\* document does not declare.
DanglingAdjacent ==
    \E zone_name \in DeclaredZones :
        \E j \in DOMAIN ListedAdjacent(zone_name) :
            ListedAdjacent(zone_name)[j].boundary_type \notin DeclaredTypes

\* C25 as stated: a load of a document in which an adjacent zone names a
\* boundary type that does not exist ends with an error, not with a panic, and
\* the error contains a name.
C25_Original ==
    (Done /\ DanglingAdjacent) =>
        /\ ~Res.ok
        /\ Res # Panic
        /\ Res.args # <<>>

-----------------------------------------------------------------------------
\* The Boundary entry that the Model boundary x was expanded from.
EntryOf(x) ==
    CHOOSE i \in DOMAIN value.boundaries : Offset(i) < x /\ x <= Offset(i + 1)

\* C29 as stated: every boundary of a loaded Model has an area from 0 to the
\* declared area of the Boundary entry it was expanded from.
C29_Original ==
    Loaded =>
        \A x \in DOMAIN Res.val.boundaries :
            /\ Res.val.boundaries[x].area >= 0
            /\ Res.val.boundaries[x].area <= value.boundaries[EntryOf(x)].area

\* What the code ensures instead: no sub-boundary is larger than what its
\* predecessors left, so that the remainder of an entry with sub-boundaries is
\* not negative, and the areas of the boundaries of an entry sum to the
\* declared area; with sub-boundary areas that are not negative the stated
\* bounds follow.
AreasOfLoadedModel ==
    Loaded =>
        \A i \in DOMAIN value.boundaries :
            LET b == value.boundaries[i]
                k == Len(b.sub_boundaries)
                out == Res.val.boundaries
            IN /\ SumSeq([j \in 1..(k + 1) |-> out[Offset(i) + j].area]) = b.area
               /\ (k > 0 \/ b.area >= 0) => out[Offset(i) + k + 1].area >= 0
               /\ (\A j \in 1..k : b.sub_boundaries[j].area >= 0) =>
                      \A j \in 1..(k + 1) :
                          /\ out[Offset(i) + j].area >= 0
                          /\ out[Offset(i) + j].area <= b.area

-----------------------------------------------------------------------------
(* The order of the validations *)

\* The least element of a set of numbers.
Least(S) == CHOOSE i \in S : \A j \in S : i <= j

\* The error that the conversion of the invalid boundary type of that name
\* should give: the structure of the layer list comes before its materials,
\* and the materials are looked up in the order of the layers.
ExpectedTypeError(name) ==
    LET layers == LayersOf(name)
        missing == {i \in DOMAIN layers :
                       /\ layers[i].kind = "Layer"
                       /\ layers[i].material \notin KnownMaterials}
    IN IF SuccessiveMarkers(layers) THEN Err(MsgConsecutive, <<name>>)
       ELSE IF OnlyMarkers(layers) THEN Err(MsgNoLayer, <<name>>)
       ELSE Err(MsgNotFound, <<"material", layers[Least(missing)].material>>)

\* The sub-boundaries of the invalid Boundary entry b that pass both their
\* area test and their lookup are those before this position: the first one
\* that fails a check, or one past the last if none does.
FirstBadSub(b) ==
    LET bad == {j \in DOMAIN b.sub_boundaries :
                   \/ Overdraws(b, j)
                   \/ b.sub_boundaries[j].boundary_type \notin DeclaredTypes}
    IN IF bad = {} THEN Len(b.sub_boundaries) + 1 ELSE Least(bad)

\* The error that the invalid Boundary entry b should give: first zone, second
\* zone, then for each sub-boundary in order its area before its boundary
\* type, and the boundary type of the entry last.
ExpectedEntryError(b) ==
    LET j == FirstBadSub(b) IN
    IF b.zones[1] \notin KnownZones THEN Err(MsgNotFound, <<"zone", b.zones[1]>>)
    ELSE IF b.zones[2] \notin KnownZones THEN Err(MsgNotFound, <<"zone", b.zones[2]>>)
    ELSE IF j > Len(b.sub_boundaries)
         THEN Err(MsgNotFound, <<"boundary type", b.boundary_type>>)
    ELSE IF Overdraws(b, j) THEN Err(MsgArea, b.zones)
    ELSE Err(MsgNotFound, <<"boundary type", b.sub_boundaries[j].boundary_type>>)

NothingConverted ==
    /\ converted_materials = <<>>
    /\ converted_boundary_types = <<>>
    /\ converted_zones = <<>>
    /\ converted_boundaries = <<>>

\* C26: a failed load reports the first defect in the order of the checks and
\* has gone no further.  A reserved zone name is reported whatever else is
\* wrong, with nothing converted.  Otherwise an invalid boundary type is
\* reported, a malformed layer list before a missing material, with no zone and
\* no boundary converted.  Otherwise the first invalid Boundary entry is
\* reported: its first zone, its second zone, then for its sub-boundaries in
\* order the area before the boundary type, and last the boundary type of the
\* entry; the boundaries converted are those of the entries before it and of
\* its sub-boundaries before the failing one.
C26_ValidationOrder ==
    Failed =>
        IF DeclaredZones \cap ReservedNames # {}
        THEN /\ Res.msg = MsgReserved
             /\ NothingConverted
        ELSE IF \E name \in DeclaredTypes : ~ValidType(name)
        THEN /\ \E name \in DeclaredTypes :
                    /\ ~ValidType(name)
                    /\ Res = ExpectedTypeError(name)
                    /\ name \notin DOMAIN converted_boundary_types
             /\ converted_zones = <<>>
             /\ converted_boundaries = <<>>
        ELSE LET invalid == {i \in DOMAIN value.boundaries :
                                ~ValidBoundary(value.boundaries[i])}
                 first == Least(invalid)
                 b == value.boundaries[first]
             IN /\ invalid # {}
                /\ bi = first
                /\ Res = ExpectedEntryError(b)
                /\ Len(converted_boundaries) =
                       Offset(first) +
                           (IF b.zones[1] \in KnownZones /\ b.zones[2] \in KnownZones
                            THEN FirstBadSub(b) - 1 ELSE 0)

C26_Witness ==
    /\ Failed
    /\ DeclaredZones \cap ReservedNames = {}
    /\ bi \in DOMAIN value.boundaries
    /\ Len(Entry.sub_boundaries) = 2
    /\ Entry.boundary_type \notin DeclaredTypes
    /\ Entry.sub_boundaries[1].boundary_type \in DeclaredTypes
    /\ ~Overdraws(Entry, 1)
    /\ Entry.sub_boundaries[2].boundary_type \notin DeclaredTypes
    /\ Overdraws(Entry, 2)
    /\ Res = Err(MsgArea, Entry.zones)
    /\ Len(converted_boundaries) = 1

-----------------------------------------------------------------------------
(* Catalog entries that nothing refers to *)

\* No Boundary entry names the boundary type.
UnreferencedType(name) ==
    \A i \in DOMAIN value.boundaries : name \notin TypesOf(value.boundaries[i])

InvalidTypes == {name \in DeclaredTypes : ~ValidType(name)}

\* C27 as stated: an invalid boundary type makes the load fail, referenced or
\* not, and in a document without Boundary entries, where nothing refers to a
\* zone, only an invalid boundary type does.
C27_Original ==
    /\ (Done /\ InvalidTypes # {}) => ~Res.ok
    /\ (Failed /\ value.boundaries = <<>>) => InvalidTypes # {}

\* C27: an invalid boundary type makes the load fail with the error of an
\* invalid type, whether or not a Boundary entry names it.  A load fails only
\* for a declared zone with a reserved name, for an invalid boundary type or
\* for an invalid Boundary entry: a material that no layer names never makes
\* it fail, and a zone that no Boundary names does so exactly when its name
\* is "outside" or "ground".
C27_CatalogValidation ==
    /\ (Done /\ InvalidTypes # {}) =>
           /\ ~Res.ok
           /\ (DeclaredZones \cap ReservedNames = {}) =>
                  \E name \in InvalidTypes : Res = ExpectedTypeError(name)
    /\ Failed =>
           \/ DeclaredZones \cap ReservedNames # {}
           \/ InvalidTypes # {}
           \/ \E i \in DOMAIN value.boundaries : ~ValidBoundary(value.boundaries[i])
    /\ (Done /\ value.boundaries = <<>>) =>
           (Res.ok <=> (InvalidTypes = {} /\ DeclaredZones \cap ReservedNames = {}))

C27_Witness ==
    /\ Failed
    /\ InvalidTypes = {"bt2"}
    /\ UnreferencedType("bt2")
    /\ value.boundaries # <<>>
    /\ \A i \in DOMAIN value.boundaries : ValidBoundary(value.boundaries[i])
    /\ DeclaredZones \cap ReservedNames = {}
    /\ Res = Err(MsgNotFound, <<"material", "mX">>)

-----------------------------------------------------------------------------
(* Boundaries between the same zones *)

\* The nodes of the two zones of boundary i.
PairOf(i) == {ZoneIndexOf(i, 1), ZoneIndexOf(i, 2)}

\* The edges that join the nodes of S directly.
DirectEdges(S) ==
    {e \in DOMAIN graph.edges : {graph.edges[e].source, graph.edges[e].target} = S}

\* The nodes made for the layered boundary i.
Chain(i) == {BoundaryNodeIndex(i, k) : k \in 0..LayerCount(i)}

\* The network of boundary i alone, built on the zone nodes.
AloneGraph(i) ==
    LET boundary == Boundaries[i]
        zones == [nodes |-> SubSeq(graph.nodes, 1, ZoneCount), edges |-> <<>>]
        film == convection_conductance_of(Real(boundary.area))
    IN IF IsSimple(i)
       THEN add_edge(zones, ZoneIndexOf(i, 1), ZoneIndexOf(i, 2),
                     simple_boundary_edge(boundary.boundary_type.u, Real(boundary.area),
                                          film))
       ELSE add_layered_boundary_nodes(
                [zone1_node |-> ZoneIndexOf(i, 1), zone2_node |-> ZoneIndexOf(i, 2),
                 zone1_name |-> boundary.zones[1].name,
                 layers |-> boundary.boundary_type.layers,
                 initial_marker |-> boundary.boundary_type.initial_marker,
                 area |-> Real(boundary.area),
                 convection_conductance |-> film,
                 group_index |-> 0],
                [graph |-> zones, marker_indices |-> <<>>]).val.graph

\* Where node n of the network of boundary i alone is in the network of the
\* Model: a zone node where it is, a node of the boundary after the nodes of
\* the boundaries before it.
Placed(i, n) == IF n < ZoneCount THEN n ELSE n + NodeOffset(i) - ZoneCount

\* C28: no boundary is merged with another.  Between two zone nodes there are
\* as many direct edges as there are simple boundaries between the two zones,
\* and a layered boundary has a chain of its own: its nodes are the nodes with
\* its group id, and an edge at one of them leads to another of them or to one
\* of its two zone nodes.  The edges and the nodes of a boundary are those of
\* the network of that boundary alone, but for the numbers of the nodes and
\* the group id.
C28_BoundariesNotMerged ==
    ZonesIndexed =>
        \A i \in Processed :
            LET alone == AloneGraph(i) IN
            /\ Cardinality(DirectEdges(PairOf(i)))
                   = Cardinality({j \in Processed : IsSimple(j) /\ PairOf(j) = PairOf(i)})
            /\ IsLayered(i) =>
                   /\ Chain(i) = {n \in 0..(node_count(graph) - 1) :
                                     node_weight(graph, n).boundary_group_index
                                         = Some(LayeredBefore(i))}
                   /\ \A e \in DOMAIN graph.edges :
                          ({graph.edges[e].source, graph.edges[e].target} \cap Chain(i) # {})
                              => {graph.edges[e].source, graph.edges[e].target}
                                     \subseteq Chain(i) \cup PairOf(i)
            /\ \A e \in DOMAIN alone.edges :
                   graph.edges[EdgeOffset(i) + e] =
                       [source |-> Placed(i, alone.edges[e].source),
                        target |-> Placed(i, alone.edges[e].target),
                        weight |-> alone.edges[e].weight]
            /\ \A n \in ZoneCount..(node_count(alone) - 1) :
                   node_weight(graph, Placed(i, n)) =
                       [node_weight(alone, n) EXCEPT
                           !.boundary_group_index = Some(LayeredBefore(i))]
            /\ edge_count(alone) = IF IsSimple(i) THEN 1 ELSE LayerCount(i) + 2
            /\ node_count(alone) = ZoneCount + (IF IsSimple(i) THEN 0 ELSE LayerCount(i) + 1)

C28_Witness ==
    /\ Built
    /\ Len(Boundaries) = 4
    /\ \A i \in DOMAIN Boundaries : PairOf(i) = {zone_indices["ground"], zone_indices["z1"]}
    /\ IsSimple(1) /\ IsLayered(2) /\ IsSimple(3) /\ IsLayered(4)
    /\ Boundaries[1] = Boundaries[3]
    /\ Boundaries[2] = Boundaries[4]
    /\ Cardinality(DirectEdges(PairOf(1))) = 2
    /\ Chain(2) \cap Chain(4) = {}
    /\ node_count(graph) = 3 + 3 + 3

-----------------------------------------------------------------------------
(* Building the network twice *)

Before == built_before[1].val
BuiltTwice == built_before # None /\ Built

HeatCapacities(g) == [n \in DOMAIN g.nodes |-> g.nodes[n].heat_capacity]
Conductances(g) == [e \in DOMAIN g.edges |-> g.edges[e].weight.conductance]

-----------------------------------------------------------------------------
(* src/MPCHomeControl/src/influxdb.rs: InfluxQuery, InfluxDB::from_config,   *)
(* InfluxDB::read and InfluxDB::read_zone                                    *)

MaxMeasurements == 2

\* The variables of the loader and of the network builder.
home_vars == <<loader_vars, network_vars, pc, bi, pending_zones>>

\* InfluxQuery::new
InfluxQuery_new(bucket, measurement, tags, field) ==
    [bucket |-> bucket, measurement |-> measurement, tags |-> tags, field |-> field,
     query |-> <<>>]

\* InfluxQuery::start_query: the query starts anew with its bucket and range.
start_query(self, start, stop) ==
    LET from == <<"from(bucket: \"" \o self.bucket \o "\")">>
    IN [self EXCEPT !.query =
           IF stop # None
           THEN Append(from, "|> range(start: " \o start \o ", stop: " \o stop[1] \o ")")
           ELSE Append(from, "|> range(start: " \o start \o ")")]

\* InfluxQuery::filter
filter(self, tag, tag_value) ==
    [self EXCEPT !.query =
        Append(@, "|> filter(fn: (r) => r[\"" \o tag \o "\"] == \"" \o tag_value \o "\")")]

\* InfluxQuery::last
last(self) == [self EXCEPT !.query = Append(@, "|> last()")]

\* Vec<String>::join
RECURSIVE join(_, _)
join(parts, sep) ==
    IF parts = <<>> THEN ""
    ELSE IF Len(parts) = 1 THEN parts[1]
    ELSE parts[1] \o sep \o join(Tail(parts), sep)

\* InfluxQuery::get_query_string
get_query_string(self) == join(self.query, " ")

\* for (tag, value) in &mapping.tags { query.filter(..) }.  The explored
\* mappings have at most one tag, so that the order among the tags of a
\* HashMap does not arise.
RECURSIVE filter_tags(_, _)
filter_tags(self, tags) ==
    IF DOMAIN tags = {} THEN self
    ELSE LET tag == CHOOSE t \in DOMAIN tags : TRUE
         IN filter_tags(filter(self, tag, tags[tag]),
                        [t \in DOMAIN tags \ {tag} |-> tags[t]])

\* The query that from_config builds for a mapping.
mapping_query(mapping) ==
    LET created == InfluxQuery_new(mapping.bucket, mapping.measurement, mapping.tags,
                                   mapping.field)
        filtered == filter(filter(start_query(created, "-30d", None),
                                  "_measurement", mapping.measurement),
                           "_field", mapping.field)
    IN last(filter_tags(filtered, mapping.tags))

InfluxMeasurement(measurement, built_query) ==
    [measurement |-> measurement, query |-> built_query]

\* zones.entry(zone_name).or_insert(Vec::new()).push(item)
entry_push(map, key, item) ==
    IF key \in DOMAIN map
    THEN [map EXCEPT ![key] = Append(@, item)]
    ELSE (key :> <<item>>) @@ map

MsgZoneNotFound == "Zone {} not found"
MsgReadError == "Error reading velue from the DB: {}"
MsgClient == "client build error"

\* InfluxDB::read: the answer of the client to the query string, an error of
\* the client wrapped by bail!.
read(database, sent) ==
    LET answer == database[get_query_string(sent)]
    IN IF answer.ok THEN Ok(answer.val) ELSE Err(MsgReadError, <<answer.msg>>)

\* One iteration of the inner loop of from_config.  The outer loop takes the
\* zones of the configuration one at a time, the inner loop the mappings of
\* that zone, both in the unspecified order of a HashMap.
FromConfigMapping ==
    /\ influx_pc = "from_config"
    /\ \E pair \in pending_mappings :
         LET zone_name == pair[1]
             measurement_name == pair[2]
             begun == {other[1] : other \in
                          {o \in pending_mappings : o[1] \in DOMAIN influx_zones}}
         IN /\ begun = {} \/ zone_name \in begun
            /\ influx_zones' =
                   entry_push(influx_zones, zone_name,
                              InfluxMeasurement(
                                  measurement_name,
                                  mapping_query(zone_mappings[zone_name][measurement_name])))
            /\ pending_mappings' = pending_mappings \ {pair}
    /\ UNCHANGED <<home_vars, zone_mappings, db, influx_pc, zone_arg, mi, read_result,
                   queries_run, returned>>

\* InfluxClient::builder(..).build()?; Ok(InfluxDB { client, zones })
FromConfigClient ==
    /\ influx_pc = "from_config"
    /\ pending_mappings = {}
    /\ \E built \in BOOLEAN :
         IF built
         THEN influx_pc' = "ready" /\ returned' = returned
         ELSE influx_pc' = "config_failed" /\ returned' = Some(Err(MsgClient, <<>>))
    /\ UNCHANGED <<home_vars, zone_mappings, pending_mappings, influx_zones, db, zone_arg,
                   mi, read_result, queries_run>>

\* The zone names read_zone is called with: configured with measurements,
\* configured without any, and not configured.
ZoneArguments == {"z1", "z2", "z3"}

\* read_zone: let mut result = HashMap::new(); match self.zones.get(&zone)
ReadZoneBegin ==
    /\ influx_pc = "ready"
    /\ \E zone \in ZoneArguments :
         /\ zone_arg' = Some(zone)
         /\ IF zone \in DOMAIN influx_zones
            THEN /\ influx_pc' = "reading"
                 /\ mi' = 1
                 /\ returned' = returned
            ELSE /\ influx_pc' = "returned"
                 /\ mi' = mi
                 /\ returned' = Some(Err(MsgZoneNotFound, <<zone>>))
    /\ read_result' = <<>>
    /\ UNCHANGED <<home_vars, zone_mappings, pending_mappings, influx_zones, db,
                   queries_run>>

\* Mutant of ReadZoneMeasurement: a query that fails is passed over and the
\* loop goes on with the next measurement.
ReadZoneMeasurement_skip_failed ==
    /\ influx_pc = "reading"
    /\ mi <= Len(influx_zones[zone_arg[1]])
    /\ LET measurement == influx_zones[zone_arg[1]][mi]
           query_result == read(db, measurement.query)
       IN /\ queries_run' = Append(queries_run, get_query_string(measurement.query))
          /\ IF ~query_result.ok
             THEN /\ mi' = mi + 1
                  /\ UNCHANGED <<read_result, influx_pc, returned>>
             ELSE IF Len(query_result.val) > 0
             THEN IF "_value" \notin DOMAIN query_result.val[1]
                  THEN /\ returned' = Some(Panic)
                       /\ influx_pc' = "returned"
                       /\ UNCHANGED <<read_result, mi>>
                  ELSE /\ read_result' =
                              [k \in DOMAIN read_result \cup {measurement.measurement} |->
                                  IF k = measurement.measurement
                                  THEN query_result.val[1]["_value"]
                                  ELSE read_result[k]]
                       /\ mi' = mi + 1
                       /\ UNCHANGED <<influx_pc, returned>>
             ELSE /\ mi' = mi + 1
                  /\ UNCHANGED <<read_result, influx_pc, returned>>
    /\ UNCHANGED <<home_vars, zone_mappings, pending_mappings, influx_zones, db, zone_arg>>

\* One iteration of "for measurement in measurements": read(..).await?, then
\* the insert of the first row's "_value" when there is a row.  Indexing a
\* row that has no "_value" panics.
ReadZoneMeasurement ==
    /\ influx_pc = "reading"
    /\ mi <= Len(influx_zones[zone_arg[1]])
    /\ LET measurement == influx_zones[zone_arg[1]][mi]
           query_result == read(db, measurement.query)
       IN /\ queries_run' = Append(queries_run, get_query_string(measurement.query))
          /\ IF ~query_result.ok
             THEN /\ returned' = Some(query_result)
                  /\ influx_pc' = "returned"
                  /\ UNCHANGED <<read_result, mi>>
             ELSE IF Len(query_result.val) > 0
             THEN IF "_value" \notin DOMAIN query_result.val[1]
                  THEN /\ returned' = Some(Panic)
                       /\ influx_pc' = "returned"
                       /\ UNCHANGED <<read_result, mi>>
                  ELSE /\ read_result' =
                              [k \in DOMAIN read_result \cup {measurement.measurement} |->
                                  IF k = measurement.measurement
                                  THEN query_result.val[1]["_value"]
                                  ELSE read_result[k]]
                       /\ mi' = mi + 1
                       /\ UNCHANGED <<influx_pc, returned>>
             ELSE /\ mi' = mi + 1
                  /\ UNCHANGED <<read_result, influx_pc, returned>>
    /\ UNCHANGED <<home_vars, zone_mappings, pending_mappings, influx_zones, db, zone_arg>>

\* Ok(result)
ReadZoneReturn ==
    /\ influx_pc = "reading"
    /\ mi > Len(influx_zones[zone_arg[1]])
    /\ returned' = Some(Ok(read_result))
    /\ influx_pc' = "returned"
    /\ UNCHANGED <<home_vars, zone_mappings, pending_mappings, influx_zones, db, zone_arg,
                   mi, read_result, queries_run>>

-----------------------------------------------------------------------------
(* The explored configurations and databases *)

MeasurementNames == <<"temperature", "humidity", "co2", "power">>

\* The mapping of a measurement of a zone: the temperature is told apart by
\* a tag of the room, the others by their field alone.
MappingOf(zone, measurement) ==
    [bucket |-> "home", measurement |-> "climate",
     tags |-> IF measurement = "temperature" THEN "room" :> zone ELSE <<>>,
     field |-> measurement]

MappingsOf(zone, measurements) == [m \in measurements |-> MappingOf(zone, m)]

\* z1 has any of the first MaxMeasurements measurements; z2 is absent, has an
\* empty table of mappings, or has the temperature; z3 is never configured.
Configurations ==
    {("z1" :> MappingsOf("z1", S)) @@ second :
        S \in SUBSET {MeasurementNames[i] : i \in 1..MaxMeasurements},
        second \in {<<>>, "z2" :> <<>>, "z2" :> MappingsOf("z2", {"temperature"})}}

\* The (zone, measurement) pairs of config.zone_mappings.
MappingPairs(config) ==
    {p \in (DOMAIN config) \X Range(MeasurementNames) : p[2] \in DOMAIN config[p[1]]}

QueriesOf(config) ==
    {get_query_string(mapping_query(config[p[1]][p[2]])) : p \in MappingPairs(config)}

Row(row_value) == ("_value" :> row_value) @@ ("_time" :> "t")
RowWithoutValue == "_time" :> "t"

\* What the client answers: an error, no row, one row, two rows, a row that
\* has no "_value" column.
Answers ==
    {Err("connection refused", <<>>), Ok(<<>>), Ok(<<Row("20")>>),
     Ok(<<Row("20"), Row("21")>>), Ok(<<RowWithoutValue>>)}

\* from_config has read and parsed the configuration file.
InfluxInit ==
    /\ zone_mappings \in Configurations
    /\ db \in [QueriesOf(zone_mappings) -> Answers]
    /\ pending_mappings = MappingPairs(zone_mappings)
    /\ influx_zones = <<>>
    /\ influx_pc = "from_config"
    /\ zone_arg = None
    /\ mi = 0
    /\ read_result = <<>>
    /\ queries_run = <<>>
    /\ returned = None
    /\ value = None
    /\ pc = "idle"
    /\ converted_materials = <<>>
    /\ converted_boundary_types = <<>>
    /\ pending_types = {}
    /\ converted_zones = <<>>
    /\ converted_boundaries = <<>>
    /\ bi = 0
    /\ si = 0
    /\ remaining_area = 0
    /\ zone_pair = <<>>
    /\ pending_zones = {}
    /\ result = None
    /\ json = None
    /\ graph = [nodes |-> <<>>, edges |-> <<>>]
    /\ zone_indices = <<>>
    /\ marker_indices = <<>>
    /\ boundary_group_index = 0
    /\ network = None
    /\ built_before = None

InfluxNext ==
    \/ FromConfigMapping
    \/ FromConfigClient
    \/ ReadZoneBegin
    \/ ReadZoneMeasurement
    \/ ReadZoneReturn

SpecInflux == InfluxInit /\ [][InfluxNext]_vars

-----------------------------------------------------------------------------
(* read_zone *)

ReadZoneReturned == influx_pc = "returned"
ReadOutcome == returned[1]
ZoneRead == zone_arg[1]

\* The zone has at least one configured measurement.
HasMeasurements(zone) ==
    zone \in DOMAIN zone_mappings /\ DOMAIN zone_mappings[zone] # {}

\* The measurements of the zone that was read, in the order of their queries.
MeasurementsRead == IF ZoneRead \in DOMAIN influx_zones THEN influx_zones[ZoneRead] ELSE <<>>
QueryOf(i) == get_query_string(MeasurementsRead[i].query)
AnswerOf(i) == db[QueryOf(i)]
QueryFails(i) == ~AnswerOf(i).ok
HasRow(i) == AnswerOf(i).ok /\ Len(AnswerOf(i).val) > 0
Valueless(i) == HasRow(i) /\ "_value" \notin DOMAIN AnswerOf(i).val[1]

\* The first measurement whose query fails or whose first row has no value;
\* one more than the number of measurements when there is none.
FirstStop ==
    Least({i \in DOMAIN MeasurementsRead : QueryFails(i) \/ Valueless(i)}
              \cup {Len(MeasurementsRead) + 1})

\* The first rows' values of the measurements with at least one row.
FirstValues ==
    LET with_row == {i \in DOMAIN MeasurementsRead : HasRow(i)}
    IN [m \in {MeasurementsRead[i].measurement : i \in with_row} |->
           LET i == CHOOSE j \in with_row : MeasurementsRead[j].measurement = m
           IN AnswerOf(i).val[1]["_value"]]

\* C30: read_zone returns the error "Zone .. not found", without running a
\* query, exactly when the zone has no configured measurement.  Otherwise it
\* runs the queries of the zone's measurements in their order, up to and
\* including the first that fails; when a query fails it returns the error
\* of the read and no map, and no later query is run; when none fails it
\* returns a map that holds, for exactly the measurements whose query
\* returned a row, the "_value" of the first row.  (A first row without
\* "_value" is the one case that ends otherwise.)
C30_ReadZone ==
    ReadZoneReturned =>
        /\ ~HasMeasurements(ZoneRead) <=> ReadOutcome = Err(MsgZoneNotFound, <<ZoneRead>>)
        /\ ~HasMeasurements(ZoneRead) => queries_run = <<>>
        /\ HasMeasurements(ZoneRead) =>
             LET run == IF FirstStop <= Len(MeasurementsRead)
                        THEN FirstStop ELSE Len(MeasurementsRead)
             IN /\ queries_run = [i \in 1..run |-> QueryOf(i)]
                /\ (FirstStop <= Len(MeasurementsRead) /\ QueryFails(FirstStop)) =>
                       /\ ReadOutcome = Err(MsgReadError, <<AnswerOf(FirstStop).msg>>)
                       /\ "val" \notin DOMAIN ReadOutcome
                /\ FirstStop > Len(MeasurementsRead) =>
                       ReadOutcome = Ok(FirstValues)
                /\ ReadOutcome.ok => \A i \in DOMAIN MeasurementsRead : ~QueryFails(i)

\* The second of two queries failed after the first had given a value:
\* an error came back, and the value that was already read did not.
C30_Witness ==
    /\ ReadZoneReturned
    /\ HasMeasurements(ZoneRead)
    /\ Len(MeasurementsRead) = 2
    /\ Len(queries_run) = 2
    /\ HasRow(1) /\ ~Valueless(1)
    /\ QueryFails(2)
    /\ read_result # <<>>
    /\ ~ReadOutcome.ok

=============================================================================
